---------------------------- MODULE Spec2Model ----------------------------
(***************************************************************************)
(* A model of the synthetic PBM data generators of                         *)
(* IgniteVSPostgres/database: the claim-line pricing rules, the            *)
(* formulary-drug selector, the reference-data loaders and the rolling     *)
(* CSV writers.  Money is kept in integer cents (the code uses Decimal     *)
(* rounded to two places).  Every random draw of the code is a             *)
(* nondeterministic choice from a small set.                               *)
(*                                                                         *)
(* The scripts are separate programs, so each has its own specification    *)
(* over its own group of variables; the other groups stay idle.            *)
(***************************************************************************)
EXTENDS Integers, Sequences, FiniteSets, TLC

VARIABLES
    \* ---- generate_claim_lines.py: ClaimLineGenerator (pricing) ----
    line,               \* the claim line row returned last (NoLine before the first)
    line_id_counter,    \* self.line_id_counter
    \* ---- generate_formularies_drugs.py: select_drugs_for_formulary ----
    all_drugs,          \* the rows of the drug file, as load_drugs returns them
    formulary,          \* the formulary row the selector is called with
    sel_pc,             \* the selector's position: the rule it runs next
    target_count,       \* random.randint(min_drugs, max_drugs)
    selected_drugs,     \* the accumulating set of ndc codes
    protected_sample,   \* the ndc codes RULE 1 sampled
    selection,          \* the returned drugs (their ndc codes)
    \* ---- one run of a generator script ----
    gen,                \* the script that runs
    upstream,           \* the reference files on disk when it starts
    pc,                 \* its position: load, open, generate, write, done,
                        \* aborted (stopped at the references), failed (an
                        \* exception left the generating function)
    loaded,             \* the id lists held in memory after loading
    loop,               \* the nested loops: parent index, parent, the rows
                        \* drawn for it (n) and the rows done for it (k)
    row,                \* the row generated last (NoRow before the first)
    total_generated,    \* total_generated, total_lines_generated, ...
    buffer,             \* all_records, all_enrollments (the batch writers)
    files,              \* the output files, in creation order
    file_number,        \* file_number
    current_file,       \* current_file: 0 for None, else an index into files
    rows_in_current_file, \* rows_in_current_file, current_file_rows
    current_file_size,  \* current_file_size (the byte-budget writer)
    \* ---- one call of a function that derives an attribute ----
    fn,                 \* the function that is called
    args,               \* its arguments and the values of its random draws
    ret,                \* what the call gave: pending, returned, raised
    \* ---- two runs of one script with the same seed ----
    script,             \* the script that is run twice
    random_seed,        \* the seed both runs start from
    now,                \* the wall clock, in seconds
    run_no,             \* the run in progress: 1, 2, or 3 when both are over
    out,                \* the rows each run has written
    \* ---- generate_drug_interactions.py: the record-collection loop ----
    total_records,      \* the parameter total_records
    all_records,        \* all_records
    seen_pairs,         \* seen_pairs
    record,             \* the record generated last, with its random.random()
    di_pc               \* the loop's position: collect, or done after it

pricingVars == <<line, line_id_counter>>
selectVars == <<all_drugs, formulary, sel_pc, target_count, selected_drugs,
                protected_sample, selection>>
runVars == <<gen, upstream, pc, loaded, loop, row, total_generated, buffer,
             files, file_number, current_file, rows_in_current_file,
             current_file_size>>

callVars == <<fn, args, ret>>

reproVars == <<script, random_seed, now, run_no, out>>

interactionVars == <<total_records, all_records, seen_pairs, record, di_pc>>

vars == <<pricingVars, selectVars, runVars, callVars, reproVars, interactionVars>>

\* The groups every action of one program leaves alone.
notPricing == <<selectVars, runVars, callVars, reproVars, interactionVars>>
notSelect == <<pricingVars, runVars, callVars, reproVars, interactionVars>>
notRun == <<pricingVars, selectVars, callVars, reproVars, interactionVars>>
notCall == <<pricingVars, selectVars, runVars, reproVars, interactionVars>>
notRepro == <<pricingVars, selectVars, runVars, callVars, interactionVars>>
notInteractions == <<pricingVars, selectVars, runVars, callVars, reproVars>>

(***************************************************************************)
(* Arithmetic helpers.                                                     *)
(***************************************************************************)

\* round(Decimal, 2) on a non-negative value n/d hundredths: Decimal's
\* __round__ rounds half to even.
RoundHalfEven(n, d) ==
    LET q == n \div d
        r == n % d
    IN  IF 2 * r < d THEN q
        ELSE IF 2 * r > d THEN q + 1
        ELSE IF q % 2 = 0 THEN q ELSE q + 1

Min(a, b) == IF a <= b THEN a ELSE b

\* f"{amount:.2f}" of a non-negative Decimal held in cents: the dollars and
\* the two cent digits.
Fmt2(c) == <<c \div 100, (c % 100) \div 10, c % 10>>

\* The amount, in cents, that a formatted field reads back as.
Cents(f) == f[1] * 100 + f[2] * 10 + f[3]

(***************************************************************************)
(* generate_claim_lines.py: pricing of a claim line.                       *)
(***************************************************************************)

\* Bound: claim lines generated in one run of the pricing specification.
MaxLines == 2

\* Inputs, in cents.  ingredient_cost_submitted and
\* dispensing_fee_submitted of a claim (or the random cost of an additional
\* medication); 3.50 is the least ingredient cost generate_claims produces.
IngredientCosts == {350, 4000, 20000}
DispensingFees == {150, 200, 350}

\* random.uniform(0.80, 0.95), in thousandths.
AllowedFractions == {800, 875, 950}

Tiers == 1..5
LineStatuses == {"APPROVED", "DENIED", "PENDING", "ADJUSTED"}

\* random.uniform(lo, hi) rounded to cents: the ends and the middle.
UniformCents(lo, hi) == {lo, (lo + hi) \div 2, hi}

\* The copay range of a tier, in cents; tiers 4 and 5 have no copay.
CopayDraws(tier) ==
    CASE tier = 1 -> UniformCents(500, 1500)
      [] tier = 2 -> UniformCents(1500, 3500)
      [] tier = 3 -> UniformCents(3500, 7000)
      [] OTHER -> {0}

\* The deductible: 0.00, or random.uniform(10.00, 50.00) on 10% of the lines.
DeductibleDraws == {0} \cup UniformCents(1000, 5000)

\* billed_amount and the rounded allowed_amount.
BilledAmount(ingredient_cost, dispensing_fee) == ingredient_cost + dispensing_fee

AllowedAmount(billed, fraction) == RoundHalfEven(billed * fraction, 1000)

\* The amounts as first computed, before the clamp: copay, coinsurance (30%
\* of the allowed amount for tiers 4 and 5), deductible and their sum.
UnclampedPricing(tier, allowed, copayDraw, deductibleDraw) ==
    LET copay == IF tier \in {1, 2, 3} THEN copayDraw ELSE 0
        coinsurance == IF tier \in {1, 2, 3} THEN 0
                       ELSE RoundHalfEven(allowed * 30, 100)
    IN  [copay |-> copay,
         coinsurance |-> coinsurance,
         deductible |-> deductibleDraw,
         patient_responsibility |-> copay + coinsurance + deductibleDraw]

\* The selector's variables while another program runs.
IdleSelect ==
    /\ all_drugs = <<>>
    /\ formulary = [formulary_type |-> "NONE"]
    /\ sel_pc = "idle"
    /\ target_count = 0
    /\ selected_drugs = {}
    /\ protected_sample = {}
    /\ selection = {}

\* The reference files a generator script can read, and a file that is not
\* there.  A file that exists holds the rows with the ids 1..rows, in order.
RefNames == {"members", "pharmacies", "drugs", "claims", "plans", "formularies"}

Missing == [exists |-> FALSE, rows |-> 0]

NoRow == [id |-> 0]

NoLoop == [idx |-> 0, parent |-> 0, n |-> 0, k |-> 0]

\* The variables of a generator run while another program runs.
IdleRun ==
    /\ gen = "none"
    /\ upstream = [f \in RefNames |-> Missing]
    /\ pc = "idle"
    /\ loaded = [f \in RefNames |-> <<>>]
    /\ loop = NoLoop
    /\ row = NoRow
    /\ total_generated = 0
    /\ buffer = <<>>
    /\ files = <<>>
    /\ file_number = 0
    /\ current_file = 0
    /\ rows_in_current_file = 0
    /\ current_file_size = 0

\* The variables of a single call while a program runs.
Pending == [status |-> "pending"]

IdleCall ==
    /\ fn = "none"
    /\ args = <<>>
    /\ ret = Pending

\* The variables of the two runs while another program runs.
IdleRepro ==
    /\ script = "none"
    /\ random_seed = 0
    /\ now = 0
    /\ run_no = 0
    /\ out = <<>>

NoRecord == [drug_1_name |-> "", drug_2_name |-> "", random |-> -1]

\* The variables of the record-collection loop while another program runs.
IdleInteractions ==
    /\ total_records = 0
    /\ all_records = <<>>
    /\ seen_pairs = {}
    /\ record = NoRecord
    /\ di_pc = "idle"

\* A pricing that is never clamped.
NoClamp(p, allowed) == p

\* What a clamp that forgets the dependent fields would do.
ClampKeepsComponents(p, allowed) ==
    IF p.patient_responsibility > allowed
    THEN [p EXCEPT !.patient_responsibility = allowed]
    ELSE p

\* "Ensure patient responsibility doesn't exceed allowed amount".
Clamp(p, allowed) ==
    IF p.patient_responsibility > allowed
    THEN [copay |-> allowed,
          coinsurance |-> 0,
          deductible |-> 0,
          patient_responsibility |-> allowed]
    ELSE p

\* calculate_line_pricing: the pricing dict.
CalculateLinePricing(tier, ingredient_cost, dispensing_fee, fraction, copayDraw, deductibleDraw, taxed) ==
    LET billed == BilledAmount(ingredient_cost, dispensing_fee)
        allowed == AllowedAmount(billed, fraction)
        p == Clamp(UnclampedPricing(tier, allowed, copayDraw, deductibleDraw), allowed)
    IN  [billed_amount |-> billed,
         allowed_amount |-> allowed,
         paid_amount |-> allowed - p.patient_responsibility,
         patient_responsibility |-> p.patient_responsibility,
         copay_amount |-> p.copay,
         coinsurance_amount |-> p.coinsurance,
         deductible_amount |-> p.deductible,
         sales_tax |-> IF taxed THEN RoundHalfEven(billed * 6, 100) ELSE 0]

\* A denial that leaves the pricing alone.
DenialKeepsPaid(pricing, line_status) == pricing

\* "Denial information": a denied line pays nothing.
ApplyDenial(pricing, line_status) ==
    IF line_status = "DENIED"
    THEN [pricing EXCEPT !.paid_amount = 0]
    ELSE pricing

NoLine == [claim_line_id |-> 0]

\* generate_claim_line: mints the line id, draws tier and status, prices the
\* line and formats the row.  The draws (fraction, copay, deductible) are
\* kept beside the row so that the amounts "as first computed" can be
\* recomputed from them.
GenerateClaimLine ==
    /\ line = NoLine
    /\ line_id_counter <= MaxLines
    /\ \E ingredient_cost \in IngredientCosts, dispensing_fee \in DispensingFees,
          tier \in Tiers, line_status \in LineStatuses,
          fraction \in AllowedFractions, deductibleDraw \in DeductibleDraws,
          taxed \in BOOLEAN :
        \E copayDraw \in CopayDraws(tier) :
            LET pricing == ApplyDenial(
                    CalculateLinePricing(tier, ingredient_cost, dispensing_fee,
                                         fraction, copayDraw, deductibleDraw, taxed),
                    line_status)
            IN  line' = [claim_line_id |-> line_id_counter,
                         tier_level |-> tier,
                         line_status |-> line_status,
                         ingredient_cost |-> ingredient_cost,
                         dispensing_fee |-> dispensing_fee,
                         billed_amount |-> Fmt2(pricing.billed_amount),
                         allowed_amount |-> Fmt2(pricing.allowed_amount),
                         paid_amount |-> Fmt2(pricing.paid_amount),
                         patient_responsibility |-> Fmt2(pricing.patient_responsibility),
                         copay_amount |-> Fmt2(pricing.copay_amount),
                         coinsurance_amount |-> Fmt2(pricing.coinsurance_amount),
                         deductible_amount |-> Fmt2(pricing.deductible_amount),
                         sales_tax |-> Fmt2(pricing.sales_tax),
                         draws |-> [fraction |-> fraction, copay |-> copayDraw,
                                    deductible |-> deductibleDraw]]
    /\ line_id_counter' = line_id_counter + 1
    /\ UNCHANGED notPricing

\* generate_all_claim_lines: writer.writerow(line); the row is not kept.
WriteClaimLine ==
    /\ line # NoLine
    /\ line' = NoLine
    /\ UNCHANGED line_id_counter
    /\ UNCHANGED notPricing

InitPricing ==
    /\ line = NoLine
    /\ line_id_counter = 1
    /\ IdleSelect
    /\ IdleRun
    /\ IdleCall
    /\ IdleRepro
    /\ IdleInteractions

IdlePricing ==
    /\ line = NoLine
    /\ line_id_counter = 0

NextPricing == GenerateClaimLine \/ WriteClaimLine

SpecPricing == InitPricing /\ [][NextPricing]_vars

(***************************************************************************)
(* generate_formularies_drugs.py: the drugs of one formulary.              *)
(***************************************************************************)

\* Bounds: the drugs in the drug file, and the largest target_count (the
\* code draws 500..2500 against a file of 20,000 drugs).
MaxDrugs == 4
MaxTarget == 4

FormularyTypes == {"STANDARD", "ENHANCED", "BASIC", "SPECIALTY", "MAIL_ORDER"}
MarketSegments == {"MEDICARE_PART_D", "MEDICARE_ADVANTAGE", "COMMERCIAL"}

\* A drug row as generate_drugs writes it: a specialty drug is also a brand.
DrugRow(ndc, kind, protected) ==
    [ndc_code |-> ndc,
     is_generic |-> (kind = "generic"),
     is_specialty |-> (kind = "specialty"),
     is_brand |-> (kind \in {"brand", "specialty"}),
     protected_class |-> protected]

\* A drug file of nG generic, nS specialty and nB brand drugs whose drug
\* class is a protected one exactly for the ndc codes in P.  The order of the
\* rows does not matter: the selector only samples and tests membership.
DrugFile(nG, nS, nB, P) ==
    [i \in 1..(nG + nS + nB) |->
        DrugRow(i, IF i <= nG THEN "generic"
                   ELSE IF i <= nG + nS THEN "specialty" ELSE "brand",
                i \in P)]

\* load_drugs: the category lists, as the ndc codes in each.
DrugCategories(drugs) ==
    LET idx == 1..Len(drugs)
    IN  [generic |-> {drugs[i].ndc_code : i \in {j \in idx : drugs[j].is_generic}},
         specialty |-> {drugs[i].ndc_code : i \in
                          {j \in idx : ~drugs[j].is_generic /\ drugs[j].is_specialty}},
         brand |-> {drugs[i].ndc_code : i \in
                      {j \in idx : ~drugs[j].is_generic /\ ~drugs[j].is_specialty
                                    /\ drugs[j].is_brand}},
         protected |-> {drugs[i].ndc_code : i \in {j \in idx : drugs[j].protected_class}}]

\* int(n * rate): the product truncated.  (For the rates used here the
\* float product truncates to the exact floor for every n below 90.)
IntOfRate(n, percent) == (n * percent) \div 100

\* random.sample(population, k): any k distinct members.
Sample(population, k) == {T \in SUBSET population : Cardinality(T) = k}

\* Sampling every protected drug, which the code does not do.
ProtectedSampleAll(n) == n

\* RULE 1: protected_sample_size.
ProtectedSampleSize(n) == IntOfRate(n, 92)

\* RULE 2: generic_sample_size.
GenericSampleSize(formulary_type, n) ==
    IntOfRate(n, IF formulary_type \in {"ENHANCED", "STANDARD"} THEN 85 ELSE 70)

\* RULE 3: specialty_sample_size.
SpecialtySampleSize(formulary_type, n) ==
    IntOfRate(n, CASE formulary_type = "SPECIALTY" -> 80
                   [] formulary_type = "ENHANCED" -> 60
                   [] formulary_type = "STANDARD" -> 40
                   [] OTHER -> 20)

\* The head of select_drugs_for_formulary: target_count is drawn and the
\* selected set starts empty.
SelectStart ==
    /\ sel_pc = "start"
    /\ \E t \in 1..MaxTarget : target_count' = t
    /\ selected_drugs' = {}
    /\ sel_pc' = "rule1"
    /\ UNCHANGED <<all_drugs, formulary, protected_sample, selection>>
    /\ UNCHANGED notSelect

\* RULE 1: protected classes, for the two Medicare segments only.
Rule1Protected ==
    /\ sel_pc = "rule1"
    /\ IF formulary.market_segment \in {"MEDICARE_PART_D", "MEDICARE_ADVANTAGE"}
       THEN LET protected_drugs == DrugCategories(all_drugs).protected
                n == Cardinality(protected_drugs)
            IN  \E smp \in Sample(protected_drugs, Min(ProtectedSampleSize(n), n)) :
                    /\ protected_sample' = smp
                    /\ selected_drugs' = selected_drugs \cup smp
       ELSE UNCHANGED <<protected_sample, selected_drugs>>
    /\ sel_pc' = "rule2"
    /\ UNCHANGED <<all_drugs, formulary, target_count, selection>>
    /\ UNCHANGED notSelect

\* RULE 2: generic drugs, at the inclusion rate of the formulary type.
Rule2Generic ==
    /\ sel_pc = "rule2"
    /\ LET generic_drugs == DrugCategories(all_drugs).generic
           n == Cardinality(generic_drugs)
       IN  \E smp \in Sample(generic_drugs,
                              Min(GenericSampleSize(formulary.formulary_type, n), n)) :
               selected_drugs' = selected_drugs \cup smp
    /\ sel_pc' = "rule3"
    /\ UNCHANGED <<all_drugs, formulary, target_count, protected_sample, selection>>
    /\ UNCHANGED notSelect

\* RULE 3: specialty drugs.
Rule3Specialty ==
    /\ sel_pc = "rule3"
    /\ LET specialty_drugs == DrugCategories(all_drugs).specialty
           n == Cardinality(specialty_drugs)
       IN  \E smp \in Sample(specialty_drugs,
                              Min(SpecialtySampleSize(formulary.formulary_type, n), n)) :
               selected_drugs' = selected_drugs \cup smp
    /\ sel_pc' = "rule4"
    /\ UNCHANGED <<all_drugs, formulary, target_count, protected_sample, selection>>
    /\ UNCHANGED notSelect

\* A fill that cuts the union down to target_count drugs.
BrandFillTruncating(selected, brand_drugs, target) ==
    LET smps == Sample(brand_drugs \ selected,
                       Min(IF target > Cardinality(selected)
                           THEN target - Cardinality(selected) ELSE 0,
                           Cardinality(brand_drugs \ selected)))
    IN  UNION {Sample(selected \cup smp, Min(target, Cardinality(selected \cup smp))) :
                 smp \in smps}

\* A fill that takes every brand drug not yet selected, whatever the slots.
BrandFillAllAvailable(selected, brand_drugs, target) ==
    {selected \cup (brand_drugs \ selected)}


\* RULE 4: the sets the selection can be after the brand fill.
BrandFill(selected, brand_drugs, target) ==
    LET remaining_slots == target - Cardinality(selected)
        available_brands == brand_drugs \ selected
    IN  IF remaining_slots > 0
        THEN {selected \cup smp :
                smp \in Sample(available_brands,
                               Min(remaining_slots, Cardinality(available_brands)))}
        ELSE {selected}

Rule4BrandFill ==
    /\ sel_pc = "rule4"
    /\ selected_drugs' \in BrandFill(selected_drugs, DrugCategories(all_drugs).brand,
                                      target_count)
    /\ sel_pc' = "return"
    /\ UNCHANGED <<all_drugs, formulary, target_count, protected_sample, selection>>
    /\ UNCHANGED notSelect

\* The returned list: the drug of every selected ndc code the lookup holds.
ReturnedDrugs(selected, drugs) ==
    LET drug_lookup == {drugs[i].ndc_code : i \in 1..Len(drugs)}
    IN  {ndc \in selected : ndc \in drug_lookup}

ReturnSelection ==
    /\ sel_pc = "return"
    /\ selection' = ReturnedDrugs(selected_drugs, all_drugs)
    /\ sel_pc' = "returned"
    /\ UNCHANGED <<all_drugs, formulary, target_count, selected_drugs, protected_sample>>
    /\ UNCHANGED notSelect

\* The loaded drug file and the formulary the selector is called with.
InitSelect ==
    /\ \E nG \in 0..MaxDrugs, nS \in 0..MaxDrugs, nB \in 0..MaxDrugs :
          /\ nG + nS + nB <= MaxDrugs
          /\ \E P \in SUBSET (1..(nG + nS + nB)) : all_drugs = DrugFile(nG, nS, nB, P)
    /\ \E ft \in FormularyTypes, ms \in MarketSegments :
          formulary = [formulary_type |-> ft, market_segment |-> ms]
    /\ sel_pc = "start"
    /\ target_count = 0
    /\ selected_drugs = {}
    /\ protected_sample = {}
    /\ selection = {}
    /\ IdlePricing
    /\ IdleRun
    /\ IdleCall
    /\ IdleRepro
    /\ IdleInteractions

NextSelect ==
    \/ SelectStart
    \/ Rule1Protected
    \/ Rule2Generic
    \/ Rule3Specialty
    \/ Rule4BrandFill
    \/ ReturnSelection

SpecSelect == InitSelect /\ [][NextSelect]_vars

(***************************************************************************)
(* The generator scripts: loading the references, the nested generation    *)
(* loops and the sharded CSV output.  A row is identified by its ordinal   *)
(* number in generation order, which is the counter the scripts mint the   *)
(* row id from.  The size constants of the scripts are scaled down.        *)
(***************************************************************************)

\* The scripts that roll over to a new shard while they generate, and the
\* scripts that collect rows in memory and write them in batches.
RollingWriters == {"claims", "claim_lines", "plan_rules", "pharmacy_networks", "data_enrollments"}
BatchWriters == {"formularies_drugs", "scripts_enrollments"}
Generators == RollingWriters \cup BatchWriters \cup {"formularies"}

\* Bounds: the rows of a reference file that is there, and the rows of the
\* claims files when they are many.
MaxRefRows == 2
MaxClaims == 50

\* generate_claims.py: TOTAL_CLAIMS (1,000,000) and the hourly distribution
\* in percent; the percentages add up to 109.
TOTAL_CLAIMS == 100
HourlyPercent == <<2, 1, 1, 1, 2, 3, 5, 7, 9, 10, 9, 8, 7, 6, 6, 7, 8, 7, 3, 2, 2, 1, 1, 1>>

ClaimsThisHour(hour) == IntOfRate(TOTAL_CLAIMS, HourlyPercent[hour + 1])

\* generate_claim_lines.py: the keys of LINES_PER_CLAIM_DISTRIBUTION (1..5).
LinesPerClaim == 1..2

\* generate_plan_rules.py: NUM_PLANS (30) and RULES_PER_PLAN_MIN..MAX
\* (667..1000).
NUM_PLANS == 2
RULES_PER_PLAN_MIN == 1
RULES_PER_PLAN_MAX == 2
RulesPerPlan == RULES_PER_PLAN_MIN..RULES_PER_PLAN_MAX

\* generate_pharmacy_networks.py: the 100,000 ids read_pharmacy_ids_from_header
\* makes, and random.randint(3, 8) networks for a pharmacy.
PharmacyIdCount == 2
NetworksPerPharmacy == 1..2

\* data/generate_enrollments.py: TOTAL_RECORDS (10,000,000), the budget
\* MAX_FILE_SIZE_MB * 1024 * 1024, the size of the header line
\* (len(','.join(headers)) + 1 = 92), the sizes estimate_row_size returns and
\* the number of enrollments a scenario gives.
TOTAL_RECORDS == 5
MAX_FILE_SIZE == 8
HeaderSize == 2
RowSizes == {2, 3}
EnrollmentsPerScenario == 1..3

\* scripts/generate_enrollments.py: ENROLLMENTS_PER_FILE (500,000) and the
\* one or two enrollments of a member.
ENROLLMENTS_PER_FILE == 2
EnrollmentsPerMember == 1..2

\* generate_formularies_drugs.py: RECORDS_PER_FILE (157,286) and
\* MAX_TOTAL_RELATIONSHIPS (10,000,000).
RECORDS_PER_FILE == 2
MAX_TOTAL_RELATIONSHIPS == 3

\* generate_formularies.py: TOTAL_FORMULARIES (5000).
TOTAL_FORMULARIES == 2

\* rows_per_file = target_bytes // ESTIMATED_BYTES_PER_ROW of the row-count
\* writers (125,829 claims; 78,643 claim lines; 39,321 rules; 209,715
\* networks).
RowsPerFile(g) ==
    CASE g = "claims" -> 12
      [] g = "claim_lines" -> 1
      [] g = "plan_rules" -> 2
      [] g = "pharmacy_networks" -> 2

\* The column list each script writes as the header of every file.
Headers(g) ==
    CASE g = "claims" ->
           <<"claim_number", "transaction_type", "date_of_service", "received_timestamp",
             "member_id", "person_code", "pharmacy_id", "pharmacy_npi",
             "prescription_number", "ndc", "quantity_dispensed", "days_supply",
             "refill_number", "daw_code", "date_written",
             "prescriber_npi", "prescriber_id",
             "ingredient_cost_submitted", "dispensing_fee_submitted",
             "patient_pay_amount", "plan_pay_amount", "tax_amount">>
      [] g = "claim_lines" ->
           <<"claim_line_id", "claim_number", "line_number", "service_date",
             "ndc", "drug_name", "quantity_dispensed", "days_supply", "unit_of_measure",
             "rendering_provider_npi", "service_facility_npi", "place_of_service",
             "billed_amount", "allowed_amount", "paid_amount", "patient_responsibility",
             "copay_amount", "coinsurance_amount", "deductible_amount",
             "ingredient_cost", "dispensing_fee", "sales_tax",
             "line_status", "denial_code", "denial_reason", "adjustment_reason",
             "prior_auth_number", "formulary_status", "tier_level", "daw_code",
             "generic_indicator", "brand_indicator",
             "prescription_number", "refill_number", "date_written", "prescriber_npi",
             "processing_time_ms", "created_at">>
      [] g = "plan_rules" ->
           <<"rule_id", "plan_id", "rule_type", "rule_name",
             "rule_criteria", "rule_action", "priority", "is_active", "created_at">>
      [] g = "pharmacy_networks" ->
           <<"network_id", "pharmacy_id", "network_name", "network_type", "network_tier",
             "contract_type", "effective_date", "termination_date", "status",
             "reimbursement_rate", "dispensing_fee", "is_preferred", "is_mail_order",
             "is_specialty", "created_at", "updated_at">>
      [] g \in {"data_enrollments", "scripts_enrollments"} ->
           <<"member_number", "plan_code", "group_number", "effective_date",
             "termination_date", "relationship", "is_active">>
      [] g = "formularies_drugs" ->
           <<"formulary_drug_id", "formulary_code", "ndc_code", "tier", "status",
             "requires_prior_auth", "requires_step_therapy", "quantity_limit",
             "days_supply_limit">>
      [] g = "formularies" ->
           <<"formulary_code", "formulary_name", "plan_code", "market_segment",
             "carrier", "pbm", "formulary_type", "tier_count", "coverage_level",
             "effective_date", "termination_date", "region", "drug_count",
             "prior_auth_pct", "step_therapy_pct", "quantity_limit_pct", "is_active">>

(***************************************************************************)
(* Reference data.                                                         *)
(***************************************************************************)

\* The ids 1..n in file order, and the members of a list.
Ids(n) == [i \in 1..n |-> i]

Range(s) == {s[i] : i \in 1..Len(s)}

\* The entities a reference file holds.
Entities(f) == IF f.exists THEN 1..f.rows ELSE {}

\* A loader that reads every row of the file when the file is there
\* (os.listdir / glob / os.path.exists) and keeps an empty list otherwise.
ReadRows(f) == IF f.exists THEN Ids(f.rows) ELSE <<>>

\* read_pharmacy_ids_from_header: sample ids when the file is missing;
\* otherwise the first two rows are read and, from the number in the first
\* id, PharmacyIdCount sequential ids are made.
ReadPharmacyIdsFromHeader(f) ==
    IF ~f.exists
    THEN Ids(PharmacyIdCount)
    ELSE LET pharmacy_ids == SubSeq(ReadRows(f), 1, Min(2, f.rows))
         IN  IF pharmacy_ids = <<>>
             THEN <<>>
             ELSE [i \in 1..PharmacyIdCount |-> pharmacy_ids[1] + i - 1]

\* generate_formularies.py load_plan_codes: default plan codes when there is
\* no plan file.
DefaultPlanCodeCount == 2

LoadPlanCodesOrDefault(f) == IF ~f.exists THEN Ids(DefaultPlanCodeCount) ELSE ReadRows(f)

\* The reference files each script reads.
Required(g) ==
    CASE g = "claims" -> {"members", "pharmacies", "drugs"}
      [] g = "claim_lines" -> {"claims", "drugs"}
      [] g = "plan_rules" -> {}
      [] g = "pharmacy_networks" -> {"pharmacies"}
      [] g = "data_enrollments" -> {"members", "plans"}
      [] g = "scripts_enrollments" -> {"members"}
      [] g = "formularies_drugs" -> {"formularies", "drugs"}
      [] g = "formularies" -> {"plans"}

\* The lists in memory after the script's loading code has run.
LoadedLists(g, up) ==
    [f \in RefNames |->
        IF g = "plan_rules" /\ f = "plans" THEN Ids(NUM_PLANS)
        ELSE IF f \notin Required(g) THEN <<>>
        ELSE IF g = "pharmacy_networks" THEN ReadPharmacyIdsFromHeader(up[f])
        ELSE IF g = "formularies" THEN LoadPlanCodesOrDefault(up[f])
        ELSE ReadRows(up[f])]

\* Whether the script stops after loading: sys.exit(1) or return on an empty
\* list, or the exception of open() / find_member_files on a missing file.
LoadAborts(g, up) ==
    CASE g \in {"claims", "claim_lines", "data_enrollments", "scripts_enrollments"} ->
           \E f \in Required(g) : ReadRows(up[f]) = <<>>
      [] g = "pharmacy_networks" -> ReadPharmacyIdsFromHeader(up["pharmacies"]) = <<>>
      [] g = "formularies_drugs" -> \E f \in Required(g) : ~up[f].exists
      [] g \in {"plan_rules", "formularies"} -> FALSE

\* The drug of a loaded claim: generate_claims drew it from the drug file.
ClaimNdc(claim_number, drugs) == drugs[((claim_number - 1) % Len(drugs)) + 1]

(***************************************************************************)
(* Output files.                                                           *)
(***************************************************************************)

\* str(n): the decimal digits of a positive number.
RECURSIVE Digits(_)
Digits(n) == IF n < 10 THEN <<n>> ELSE Append(Digits(n \div 10), n % 10)

\* f"{file_number:02d}" and str(file_number).zfill(2): at least two digits.
Format02d(n) == IF n < 10 THEN <<0, n>> ELSE Digits(n)

\* The number a digit string reads as.
RECURSIVE NumberOf(_)
NumberOf(d) == IF d = <<>> THEN 0 ELSE 10 * NumberOf(SubSeq(d, 1, Len(d) - 1)) + d[Len(d)]

\* The order of sorted() on the names prefix_<digits>.csv of one script: the
\* names differ from the first digit on, and where one digit string ends the
\* '.' that follows it sorts before every digit.
RECURSIVE NameBefore(_, _)
NameBefore(a, b) ==
    IF a = <<>> THEN b # <<>>
    ELSE IF b = <<>> THEN FALSE
    ELSE IF Head(a) # Head(b) THEN Head(a) < Head(b)
    ELSE NameBefore(Tail(a), Tail(b))

\* The mark of the header line among the lines of a file; data lines are
\* the positive row ordinals.
HeaderLine == 0

\* open(filename, 'w'), csv.DictWriter(f, fieldnames) and writer.writeheader().
NewFile(name, fieldnames) ==
    [name |-> name, fieldnames |-> fieldnames, lines |-> <<HeaderLine>>, open |-> TRUE]

\* open(..., 'w') creates the file, or truncates the file of that name.
OpenForWriting(fs, f) ==
    IF \E i \in 1..Len(fs) : fs[i].name = f.name
    THEN [fs EXCEPT ![CHOOSE i \in 1..Len(fs) : fs[i].name = f.name] = f]
    ELSE Append(fs, f)

HandleOf(fs, name) == CHOOSE i \in 1..Len(fs) : fs[i].name = name

\* "if current_file: current_file.close()".
CloseFile(fs, cf) == IF cf = 0 THEN fs ELSE [fs EXCEPT ![cf].open = FALSE]

\* The writer's variables as one value.
Writer ==
    [files |-> files, current_file |-> current_file, file_number |-> file_number,
     rows |-> rows_in_current_file, size |-> current_file_size]

\* An open_new_file that takes the number after the next one.
OpenNewFileSkipping(w, fieldnames) ==
    LET f == NewFile(Format02d(w.file_number + 1), fieldnames)
        fs == OpenForWriting(CloseFile(w.files, w.current_file), f)
    IN  [w EXCEPT !.files = fs, !.current_file = HandleOf(fs, f.name),
                  !.file_number = @ + 2, !.rows = 0]

\* open_new_file() of generate_claims, generate_claim_lines and
\* generate_plan_rules, and the same steps inside generate_pharmacy_networks:
\* close the current file, create the file named by file_number, write the
\* header, add one to file_number and start counting rows again.
OpenNewFile(w, fieldnames) ==
    LET f == NewFile(Format02d(w.file_number), fieldnames)
        fs == OpenForWriting(CloseFile(w.files, w.current_file), f)
    IN  [w EXCEPT !.files = fs, !.current_file = HandleOf(fs, f.name),
                  !.file_number = @ + 1, !.rows = 0]

\* data/generate_enrollments.py main: close, add one to file_number, create
\* the file of that number and count the header in the size.
OpenNextFile(w, fieldnames) ==
    LET f == NewFile(Format02d(w.file_number + 1), fieldnames)
        fs == OpenForWriting(CloseFile(w.files, w.current_file), f)
    IN  [w EXCEPT !.files = fs, !.current_file = HandleOf(fs, f.name),
                  !.file_number = @ + 1, !.size = HeaderSize]

\* A byte-budget test that looks at the size already written only.
NeedsNewFileIgnoringRow(g, w, r) ==
    CASE g \in {"claims", "claim_lines", "plan_rules"} -> w.rows >= RowsPerFile(g)
      [] g = "pharmacy_networks" -> w.current_file = 0 \/ w.rows >= RowsPerFile(g)
      [] g = "data_enrollments" -> w.size > MAX_FILE_SIZE

\* The test before each row: does the row go to a new file?
NeedsNewFile(g, w, r) ==
    CASE g \in {"claims", "claim_lines", "plan_rules"} -> w.rows >= RowsPerFile(g)
      [] g = "pharmacy_networks" -> w.current_file = 0 \/ w.rows >= RowsPerFile(g)
      [] g = "data_enrollments" -> w.size + r.size > MAX_FILE_SIZE

\* The writer after the test, and after writer.writerow(r) and the counters.
Rolled(g, w, r) ==
    IF ~NeedsNewFile(g, w, r) THEN w
    ELSE IF g = "data_enrollments" THEN OpenNextFile(w, Headers(g))
    ELSE OpenNewFile(w, Headers(g))

Written(g, w, r) ==
    [w EXCEPT !.files[w.current_file].lines = Append(@, r.id),
              !.rows = @ + 1,
              !.size = IF g = "data_enrollments" THEN @ + r.size ELSE @]

\* The scripts whose generating loop runs inside try / except Exception:
\* the handler closes current_file and raises again.
HasExceptHandler(g) == g \in {"pharmacy_networks", "data_enrollments"}

(***************************************************************************)
(* The generation loops.  A position of the nested loops is the parent     *)
(* (claim, plan, pharmacy, member, formulary, hour), its index, the number *)
(* n of rows drawn for it and the number k of the row being made.          *)
(***************************************************************************)

\* One more row for the same parent.
SameParent == IF loop.k < loop.n THEN {[loop EXCEPT !.k = @ + 1]} ELSE {}

\* The first row of the next parent, for which one of counts rows are drawn.
NextParent(parents, counts) ==
    IF loop.k < loop.n \/ loop.idx >= Len(parents) THEN {}
    ELSE {[idx |-> loop.idx + 1, parent |-> parents[loop.idx + 1], n |-> n, k |-> 1] :
            n \in counts}

\* A counter that starts again with every file.
MintIdPerFile == rows_in_current_file + 1

\* The number the next row is minted from: claim_counter, line_id_counter,
\* rule_id_counter and network_id_counter start at 1 and are incremented
\* once for every generated row, so they are one ahead of the count of
\* generated rows.
MintId == total_generated + 1

\* generate_claims: the hours 0..23 with int(TOTAL_CLAIMS * share) claims
\* each, then the claims that remain to TOTAL_CLAIMS (index 25).
ClaimsPositions ==
    LET hours == {h \in (loop.idx + 1)..24 : ClaimsThisHour(h - 1) > 0}
        remaining == TOTAL_CLAIMS - total_generated
    IN  IF loop.k < loop.n THEN SameParent
        ELSE IF hours # {}
        THEN LET h == CHOOSE x \in hours : \A y \in hours : x <= y
             IN  {[idx |-> h, parent |-> h - 1, n |-> ClaimsThisHour(h - 1), k |-> 1]}
        ELSE IF loop.idx <= 24 /\ remaining > 0
        THEN {[idx |-> 25, parent |-> hour, n |-> remaining, k |-> 1] : hour \in {8, 17}}
        ELSE {}

\* generate_claim: the claim number from claim_counter, and member, pharmacy
\* and drug by random.choice from the loaded lists.
ClaimsIterations ==
    {[loop |-> l,
      row |-> [id |-> MintId, member_id |-> m, pharmacy_id |-> p, ndc |-> d]] :
        l \in ClaimsPositions, m \in Range(loaded["members"]),
        p \in Range(loaded["pharmacies"]), d \in Range(loaded["drugs"])}

\* generate_all_claim_lines / generate_claim_line: line 1 carries the drug
\* of the claim, a further line a random.choice of the loaded drugs.
ClaimLineIterations ==
    UNION {{[loop |-> l,
             row |-> [id |-> MintId, claim_number |-> l.parent,
                      line_number |-> l.k, ndc |-> d]] :
               d \in IF l.k = 1 THEN {ClaimNdc(l.parent, loaded["drugs"])}
                                ELSE Range(loaded["drugs"])} :
           l \in SameParent \cup NextParent(loaded["claims"], LinesPerClaim)}

\* generate_all_rules / generate_rule.
RuleIterations ==
    {[loop |-> l, row |-> [id |-> MintId, plan_id |-> l.parent]] :
        l \in SameParent \cup NextParent(loaded["plans"], RulesPerPlan)}

\* generate_pharmacy_networks / generate_pharmacy_network_record.
PharmacyNetworkIterations ==
    {[loop |-> l, row |-> [id |-> MintId, pharmacy_id |-> l.parent]] :
        l \in SameParent \cup NextParent(loaded["pharmacies"], NetworksPerPharmacy)}

\* data/generate_enrollments.py main: while total_enrollments < TOTAL_RECORDS
\* the members are taken in order once and by random.choice afterwards; the
\* rows of a member stop at TOTAL_RECORDS.
EnrollmentPositions ==
    IF total_generated >= TOTAL_RECORDS THEN {}
    ELSE IF loop.k < loop.n THEN SameParent
    ELSE IF loop.idx < Len(loaded["members"])
    THEN NextParent(loaded["members"], EnrollmentsPerScenario)
    ELSE {[idx |-> loop.idx, parent |-> m, n |-> n, k |-> 1] :
            m \in Range(loaded["members"]), n \in EnrollmentsPerScenario}

EnrollmentIterations ==
    {[loop |-> l,
      row |-> [id |-> MintId, member_number |-> l.parent,
               plan_code |-> c, size |-> s]] :
        l \in EnrollmentPositions, c \in Range(loaded["plans"]), s \in RowSizes}

\* generate_all_formulary_drugs: a record for each drug selected for each
\* formulary (a formulary may get none), up to MAX_TOTAL_RELATIONSHIPS.
FormularyDrugIterations ==
    IF Len(buffer) >= MAX_TOTAL_RELATIONSHIPS THEN {}
    ELSE {[loop |-> l,
           row |-> [id |-> MintId, formulary_code |-> l.parent, ndc_code |-> d]] :
            l \in SameParent \cup
                  (IF loop.k < loop.n THEN {}
                   ELSE {[idx |-> i, parent |-> loaded["formularies"][i], n |-> n, k |-> 1] :
                           i \in (loop.idx + 1)..Len(loaded["formularies"]),
                           n \in 1..Len(loaded["drugs"])}),
            d \in Range(loaded["drugs"])}

\* The next passes of the innermost loop of a rolling writer.
Iterations(g) ==
    CASE g = "claims" -> ClaimsIterations
      [] g = "claim_lines" -> ClaimLineIterations
      [] g = "plan_rules" -> RuleIterations
      [] g = "pharmacy_networks" -> PharmacyNetworkIterations
      [] g = "data_enrollments" -> EnrollmentIterations

(***************************************************************************)
(* One run of a generator script.                                          *)
(***************************************************************************)

\* The rows a reference file of a script can hold when it is not empty.
PresentSizes(g, f) == IF g = "claim_lines" /\ f = "claims" THEN {1, MaxClaims} ELSE 1..MaxRefRows

FileStates == {Missing} \cup {[exists |-> TRUE, rows |-> n] : n \in (0..MaxRefRows) \cup {MaxClaims}}

\* The reference files a script can find: each file it reads is missing,
\* empty or holds rows; the files it does not read play no part.
UpstreamStates(g) ==
    {[f \in RefNames |-> IF f \in Required(g) THEN c[f] ELSE Missing] :
        c \in {x \in [Required(g) -> FileStates] :
                 \A f \in Required(g) : x[f].rows \in {0} \cup PresentSizes(g, f)}}

InitRun ==
    /\ gen \in Generators
    /\ upstream \in UpstreamStates(gen)
    /\ pc = "load"
    /\ loaded = [f \in RefNames |-> <<>>]
    /\ loop = NoLoop
    /\ row = NoRow
    /\ total_generated = 0
    /\ buffer = <<>>
    /\ files = <<>>
    /\ file_number = 1
    /\ current_file = 0
    /\ rows_in_current_file = 0
    /\ current_file_size = 0
    /\ IdlePricing
    /\ IdleSelect
    /\ IdleCall
    /\ IdleRepro
    /\ IdleInteractions

SetWriter(w) ==
    /\ files' = w.files
    /\ current_file' = w.current_file
    /\ file_number' = w.file_number
    /\ rows_in_current_file' = w.rows
    /\ current_file_size' = w.size

\* The scripts that open the first file before the loop.
EagerOpen == {"claims", "claim_lines", "plan_rules", "data_enrollments"}

\* The loading code of the script, when it lets the run go on.
LoadReferenceData ==
    /\ pc = "load"
    /\ ~LoadAborts(gen, upstream)
    /\ loaded' = LoadedLists(gen, upstream)
    /\ pc' = IF gen \in EagerOpen THEN "open" ELSE "generate"
    /\ UNCHANGED <<gen, upstream, loop, row, total_generated, buffer, files,
                   file_number, current_file, rows_in_current_file, current_file_size>>
    /\ UNCHANGED notRun

\* The loading code of the script, when it ends the run.
AbortLoad ==
    /\ pc = "load"
    /\ LoadAborts(gen, upstream)
    /\ loaded' = LoadedLists(gen, upstream)
    /\ pc' = "aborted"
    /\ UNCHANGED <<gen, upstream, loop, row, total_generated, buffer, files,
                   file_number, current_file, rows_in_current_file, current_file_size>>
    /\ UNCHANGED notRun

\* "Open first file": open_new_file(), or the first open of
\* data/generate_enrollments.py, which leaves file_number at 1.
OpenFirstFile ==
    /\ pc = "open"
    /\ LET w == OpenNewFile(Writer, Headers(gen))
       IN  SetWriter(IF gen = "data_enrollments"
                     THEN [w EXCEPT !.file_number = file_number, !.size = HeaderSize]
                     ELSE w)
    /\ pc' = "generate"
    /\ UNCHANGED <<gen, upstream, loaded, loop, row, total_generated, buffer>>
    /\ UNCHANGED notRun

\* One pass of the innermost loop: the rollover test, the row, writerow and
\* the counters.
Iterate(it) ==
    /\ loop' = it.loop
    /\ row' = it.row
    /\ SetWriter(Written(gen, Rolled(gen, Writer, it.row), it.row))
    /\ total_generated' = total_generated + 1
    /\ UNCHANGED <<gen, upstream, pc, loaded, buffer>>
    /\ UNCHANGED notRun

GenerateClaims == gen = "claims" /\ pc = "generate" /\ \E it \in ClaimsIterations : Iterate(it)

GenerateAllClaimLines == gen = "claim_lines" /\ pc = "generate" /\ \E it \in ClaimLineIterations : Iterate(it)

GenerateAllRules == gen = "plan_rules" /\ pc = "generate" /\ \E it \in RuleIterations : Iterate(it)

GeneratePharmacyNetworks == gen = "pharmacy_networks" /\ pc = "generate" /\ \E it \in PharmacyNetworkIterations : Iterate(it)

EnrollmentsMain == gen = "data_enrollments" /\ pc = "generate" /\ \E it \in EnrollmentIterations : Iterate(it)

\* "Close last file", after the loops.
CloseLastFile ==
    /\ gen \in RollingWriters
    /\ pc = "generate"
    /\ Iterations(gen) = {}
    /\ files' = CloseFile(files, current_file)
    /\ pc' = "done"
    /\ UNCHANGED <<gen, upstream, loaded, loop, row, total_generated, buffer,
                   file_number, current_file, rows_in_current_file, current_file_size>>
    /\ UNCHANGED notRun

\* open() raises for the first file: no file is open yet.
FirstOpenFails ==
    /\ pc = "open"
    /\ pc' = "failed"
    /\ UNCHANGED <<gen, upstream, loaded, loop, row, total_generated, buffer, files,
                   file_number, current_file, rows_in_current_file, current_file_size>>
    /\ UNCHANGED notRun

\* open() raises at a rollover: the file before it has been closed already
\* (data/generate_enrollments.py has also counted the new file, and has the
\* row in hand).
RolloverOpenFails ==
    /\ gen \in RollingWriters
    /\ pc = "generate"
    /\ \E it \in Iterations(gen) :
          /\ NeedsNewFile(gen, Writer, it.row)
          /\ loop' = it.loop
          /\ row' = IF gen = "data_enrollments" THEN it.row ELSE row
    /\ files' = CloseFile(files, current_file)
    /\ file_number' = IF gen = "data_enrollments" THEN file_number + 1 ELSE file_number
    /\ pc' = "failed"
    /\ UNCHANGED <<gen, upstream, loaded, total_generated, buffer, current_file,
                   rows_in_current_file, current_file_size>>
    /\ UNCHANGED notRun

\* writerow raises: the exception leaves the loop; where the loop runs
\* inside try / except the handler closes current_file first.
WriteRowFails ==
    /\ gen \in RollingWriters
    /\ pc = "generate"
    /\ \E it \in Iterations(gen) :
          /\ loop' = it.loop
          /\ row' = it.row
          /\ LET w == Rolled(gen, Writer, it.row)
             IN  SetWriter(IF HasExceptHandler(gen)
                           THEN [w EXCEPT !.files = CloseFile(w.files, w.current_file)]
                           ELSE w)
    /\ pc' = "failed"
    /\ UNCHANGED <<gen, upstream, loaded, total_generated, buffer>>
    /\ UNCHANGED notRun

(***************************************************************************)
(* The batch writers.                                                      *)
(***************************************************************************)

\* A file written inside "with open(...)": header, the rows, closed.
WrittenFile(name, fieldnames, rows) ==
    [name |-> name, fieldnames |-> fieldnames, lines |-> <<HeaderLine>> \o rows, open |-> FALSE]

\* write_records_to_multiple_files: num_files slices of RECORDS_PER_FILE.
BatchFiles(records, fieldnames) ==
    LET record_count == Len(records)
        num_files == (record_count + RECORDS_PER_FILE - 1) \div RECORDS_PER_FILE
    IN  [file_num \in 1..num_files |->
            LET start_idx == (file_num - 1) * RECORDS_PER_FILE
                end_idx == Min(start_idx + RECORDS_PER_FILE, record_count)
            IN  WrittenFile(Format02d(file_num), fieldnames,
                            SubSeq(records, start_idx + 1, end_idx))]

\* generate_all_formulary_drugs: one record appended to all_records.
GenerateAllFormularyDrugs ==
    /\ gen = "formularies_drugs"
    /\ pc = "generate"
    /\ \E it \in FormularyDrugIterations :
          /\ loop' = it.loop
          /\ row' = it.row
          /\ buffer' = Append(buffer, it.row.id)
    /\ total_generated' = total_generated + 1
    /\ UNCHANGED <<gen, upstream, pc, loaded, files, file_number, current_file,
                   rows_in_current_file, current_file_size>>
    /\ UNCHANGED notRun

\* The loops are over (the formularies left select no drug, or the limit is
\* reached): write_records_to_multiple_files, then generate_statistics,
\* which divides by len(records).
WriteRecordsToMultipleFiles ==
    /\ gen = "formularies_drugs"
    /\ pc = "generate"
    /\ ~(loop.k < loop.n /\ Len(buffer) < MAX_TOTAL_RELATIONSHIPS)
    /\ files' = BatchFiles(buffer, Headers(gen))
    /\ pc' = IF buffer = <<>> THEN "failed" ELSE "done"
    /\ UNCHANGED <<gen, upstream, loaded, loop, row, total_generated, buffer,
                   file_number, current_file, rows_in_current_file, current_file_size>>
    /\ UNCHANGED notRun

\* scripts/generate_enrollments.py generate_all_enrollments: the enrollments
\* of the next member are added to all_enrollments; once there are
\* ENROLLMENTS_PER_FILE of them that many are written to a file.
GenerateAllEnrollments ==
    /\ gen = "scripts_enrollments"
    /\ pc = "generate"
    /\ loop.idx < Len(loaded["members"])
    /\ \E n \in EnrollmentsPerMember :
          LET member_number == loaded["members"][loop.idx + 1]
              all_enrollments == buffer \o [i \in 1..n |-> total_generated + i]
              flush == Len(all_enrollments) >= ENROLLMENTS_PER_FILE
          IN  /\ loop' = [idx |-> loop.idx + 1, parent |-> member_number, n |-> n, k |-> n]
              /\ row' = [id |-> total_generated + n, member_number |-> member_number]
              /\ total_generated' = total_generated + n
              /\ files' = IF flush
                          THEN OpenForWriting(files,
                                   WrittenFile(Format02d(file_number), Headers(gen),
                                               SubSeq(all_enrollments, 1, ENROLLMENTS_PER_FILE)))
                          ELSE files
              /\ buffer' = IF flush
                           THEN SubSeq(all_enrollments, ENROLLMENTS_PER_FILE + 1,
                                       Len(all_enrollments))
                           ELSE all_enrollments
              /\ file_number' = IF flush THEN file_number + 1 ELSE file_number
    /\ UNCHANGED <<gen, upstream, pc, loaded, current_file, rows_in_current_file,
                   current_file_size>>
    /\ UNCHANGED notRun

\* "Write remaining enrollments".
WriteRemainingEnrollments ==
    /\ gen = "scripts_enrollments"
    /\ pc = "generate"
    /\ loop.idx >= Len(loaded["members"])
    /\ files' = IF buffer # <<>>
                THEN OpenForWriting(files, WrittenFile(Format02d(file_number), Headers(gen), buffer))
                ELSE files
    /\ pc' = "done"
    /\ UNCHANGED <<gen, upstream, loaded, loop, row, total_generated, buffer,
                   file_number, current_file, rows_in_current_file, current_file_size>>
    /\ UNCHANGED notRun

\* generate_formularies.py generate_all_formularies: TOTAL_FORMULARIES rows,
\* each with a plan code of the list (or a made-up one when the list is
\* empty), written to the one file us_pharmacy_formularies.csv.
GenerateAllFormularies ==
    /\ gen = "formularies"
    /\ pc = "generate"
    /\ \E plan_code \in IF loaded["plans"] # <<>> THEN Range(loaded["plans"]) ELSE {0} :
          row' = [id |-> TOTAL_FORMULARIES, plan_code |-> plan_code]
    /\ total_generated' = TOTAL_FORMULARIES
    /\ files' = <<WrittenFile(<<>>, Headers(gen), Ids(TOTAL_FORMULARIES))>>
    /\ pc' = "done"
    /\ UNCHANGED <<gen, upstream, loaded, loop, buffer, file_number, current_file,
                   rows_in_current_file, current_file_size>>
    /\ UNCHANGED notRun

NextRun ==
    \/ LoadReferenceData
    \/ AbortLoad
    \/ OpenFirstFile
    \/ GenerateClaims
    \/ GenerateAllClaimLines
    \/ GenerateAllRules
    \/ GeneratePharmacyNetworks
    \/ EnrollmentsMain
    \/ CloseLastFile
    \/ FirstOpenFails
    \/ RolloverOpenFails
    \/ WriteRowFails
    \/ GenerateAllFormularyDrugs
    \/ WriteRecordsToMultipleFiles
    \/ GenerateAllEnrollments
    \/ WriteRemainingEnrollments
    \/ GenerateAllFormularies

Spec == InitRun /\ [][NextRun]_vars

(***************************************************************************)
(* Single calls of the functions that derive an attribute from random      *)
(* draws (SpecCall).  A draw of random.random() is the number of whole     *)
(* hundredths in it, 0..99, so that "random.random() < 0.70" is            *)
(* "draw < 70".                                                            *)
(***************************************************************************)

Returned(v) == [status |-> "returned", value |-> v]

Raised(e) == [status |-> "raised", error |-> e]

\* Bound: the tier counts assign_tier is called with (the formulary
\* generator writes 3, 4, 5 and 6).
MaxTierCount == 6

\* The values of random.random() that are tried: the ends of the range and
\* both sides of every threshold of assign_tier and of the tier 3 and 4 rows
\* of UTILIZATION_MANAGEMENT.
DrawPoints == {0, 14, 15, 19, 20, 59, 60, 69, 70, 99}

\* The flag columns of the drug file hold the strings 'true' and 'false'.
FlagValues == {"true", "false"}

DrugFlags == [is_generic : FlagValues, is_brand : FlagValues, is_specialty : FlagValues]

\* TIER_STRUCTURES of generate_formularies.py: the tier counts it draws.
TIER_STRUCTURES == {3, 4, 5, 6}

\* An assign_tier whose specialty branch forgets the tier count.
AssignTierSpecialtyUncapped(drug, formulary_tier_count, draw) ==
    IF drug.is_generic = "true" THEN 1
    ELSE IF drug.is_specialty = "true"
         THEN IF draw < 70 THEN 4 ELSE 5
    ELSE IF drug.is_brand = "true"
         THEN Min(IF draw < 60 THEN 2 ELSE 3, formulary_tier_count)
    ELSE Min(2, formulary_tier_count)

\* An assign_tier whose brand branch forgets the tier count.
AssignTierBrandUncapped(drug, formulary_tier_count, draw) ==
    IF drug.is_generic = "true" THEN 1
    ELSE IF drug.is_specialty = "true"
         THEN IF formulary_tier_count >= 5
              THEN IF draw < 70 THEN 4 ELSE 5
              ELSE Min(4, formulary_tier_count)
    ELSE IF drug.is_brand = "true"
         THEN IF draw < 60 THEN 2 ELSE 3
    ELSE Min(2, formulary_tier_count)

\* assign_tier(drug, formulary_tier_count).
AssignTier(drug, formulary_tier_count, draw) ==
    IF drug.is_generic = "true" THEN 1
    ELSE IF drug.is_specialty = "true"
         THEN IF formulary_tier_count >= 5
              THEN IF draw < 70 THEN 4 ELSE 5
              ELSE Min(4, formulary_tier_count)
    ELSE IF drug.is_brand = "true"
         THEN Min(IF draw < 60 THEN 2 ELSE 3, formulary_tier_count)
    ELSE Min(2, formulary_tier_count)

\* UTILIZATION_MANAGEMENT, in percent.
UmFlags == {"prior_auth", "step_therapy", "quantity_limit"}

UTILIZATION_MANAGEMENT ==
    [t \in 1..5 |->
        CASE t = 1 -> [prior_auth |-> 2, step_therapy |-> 1, quantity_limit |-> 5]
          [] t = 2 -> [prior_auth |-> 10, step_therapy |-> 8, quantity_limit |-> 15]
          [] t = 3 -> [prior_auth |-> 25, step_therapy |-> 20, quantity_limit |-> 30]
          [] t = 4 -> [prior_auth |-> 60, step_therapy |-> 15, quantity_limit |-> 50]
          [] t = 5 -> [prior_auth |-> 90, step_therapy |-> 25, quantity_limit |-> 70]]

\* UTILIZATION_MANAGEMENT.get(tier, UTILIZATION_MANAGEMENT[3]).
UmRules(tier) ==
    IF tier \in DOMAIN UTILIZATION_MANAGEMENT
    THEN UTILIZATION_MANAGEMENT[tier]
    ELSE UTILIZATION_MANAGEMENT[3]

\* apply_utilization_management: the three flags, one draw each.
ApplyUtilizationManagement(tier, draws) ==
    LET um_rules == UmRules(tier)
    IN  [requires_prior_auth |-> draws[1] < um_rules.prior_auth,
         requires_step_therapy |-> draws[2] < um_rules.step_therapy,
         has_quantity_limit |-> draws[3] < um_rules.quantity_limit]

\* The arguments of the calls.
AssignTierArgs ==
    [drug : DrugFlags, tier_count : 1..MaxTierCount, draw : DrawPoints]

UmDrawPoints == {0, 15, 19, 20, 99}

ApplyUmArgs ==
    [tier : 1..MaxTierCount, draws : UmDrawPoints \X UmDrawPoints \X UmDrawPoints]

CallAssignTier ==
    /\ fn = "assign_tier"
    /\ ret = Pending
    /\ ret' = Returned(AssignTier(args.drug, args.tier_count, args.draw))
    /\ UNCHANGED <<fn, args>>
    /\ UNCHANGED notCall

CallApplyUtilizationManagement ==
    /\ fn = "apply_utilization_management"
    /\ ret = Pending
    /\ ret' = Returned(ApplyUtilizationManagement(args.tier, args.draws))
    /\ UNCHANGED <<fn, args>>
    /\ UNCHANGED notCall

(***************************************************************************)
(* The categorical samplers.  A distribution is the dict in its insertion  *)
(* order, a sequence of <<label, weight>>.  Weights are whole numbers of a *)
(* unit (a tenth of a percent for US_STATES and GENDER_DIST, a hundredth   *)
(* for the probability tables, a half for LINES_PER_CLAIM_DISTRIBUTION)    *)
(* and a draw is a whole number of half units, so that a draw can fall on  *)
(* a cumulative weight or strictly between two of them.                    *)
(***************************************************************************)

US_STATES ==
    << <<"CA", 120>>, <<"TX", 90>>, <<"FL", 65>>, <<"NY", 60>>, <<"PA", 40>>,
       <<"IL", 39>>, <<"OH", 36>>, <<"GA", 33>>, <<"NC", 32>>, <<"MI", 31>>,
       <<"NJ", 28>>, <<"VA", 26>>, <<"WA", 23>>, <<"AZ", 22>>, <<"MA", 21>>,
       <<"TN", 21>>, <<"IN", 20>>, <<"MO", 19>>, <<"MD", 19>>, <<"WI", 18>>,
       <<"CO", 17>>, <<"MN", 17>>, <<"SC", 16>>, <<"AL", 15>>, <<"LA", 14>>,
       <<"KY", 14>>, <<"OR", 13>>, <<"OK", 12>>, <<"CT", 11>>, <<"UT", 10>>,
       <<"IA", 10>>, <<"NV", 9>>, <<"AR", 9>>, <<"MS", 9>>, <<"KS", 9>>,
       <<"NM", 6>>, <<"NE", 6>>, <<"WV", 6>>, <<"ID", 5>>, <<"HI", 4>>,
       <<"NH", 4>>, <<"ME", 4>>, <<"MT", 3>>, <<"RI", 3>>, <<"DE", 3>>,
       <<"SD", 3>>, <<"ND", 2>>, <<"AK", 2>>, <<"VT", 2>>, <<"WY", 2>> >>

PHARMACY_TYPES ==
    << <<"RETAIL", 70>>, <<"MAIL_ORDER", 5>>, <<"SPECIALTY", 10>>, <<"LONG_TERM_CARE", 15>> >>

GENDER_DIST == << <<"F", 505>>, <<"M", 493>>, <<"U", 2>> >>

SCENARIOS ==
    << <<"single_active", 70>>, <<"dual_coverage", 15>>,
       <<"plan_transition", 10>>, <<"historical_only", 5>> >>

RELATIONSHIPS ==
    << <<"SELF", 60>>, <<"SPOUSE", 20>>, <<"CHILD", 15>>, <<"DEPENDENT", 5>> >>

LINES_PER_CLAIM_DISTRIBUTION ==
    << <<1, 170>>, <<2, 24>>, <<3, 4>>, <<4, 1>>, <<5, 1>> >>

\* sum(choices_dict.values()).
RECURSIVE Total(_)
Total(dist) == IF dist = <<>> THEN 0 ELSE Head(dist)[2] + Total(Tail(dist))

PositiveLabels(dist) == {dist[i][1] : i \in {j \in 1..Len(dist) : dist[j][2] > 0}}

\* The single pass: "cumulative += weight; if rand <= cumulative: return".
NotFound == [found |-> FALSE]

RECURSIVE CumulativePass(_, _, _)
CumulativePass(dist, rand, cumulative) ==
    IF dist = <<>> THEN NotFound
    ELSE LET c == cumulative + Head(dist)[2]
         IN  IF rand <= 2 * c
             THEN [found |-> TRUE, label |-> Head(dist)[1]]
             ELSE CumulativePass(Tail(dist), rand, c)

\* A pass that ends with the fallback: select_state ('CA'),
\* select_pharmacy_type ('RETAIL'), choose_scenario ('single_active'),
\* choose_relationship ('SELF').
PassOrDefault(dist, rand, default) ==
    LET r == CumulativePass(dist, rand, 0)
    IN  IF r.found THEN r.label ELSE default

SelectState(rand) == PassOrDefault(US_STATES, rand, "CA")

SelectPharmacyType(rand) == PassOrDefault(PHARMACY_TYPES, rand, "RETAIL")

ChooseScenario(rand) == PassOrDefault(SCENARIOS, rand, "single_active")

ChooseRelationship(rand) == PassOrDefault(RELATIONSHIPS, rand, "SELF")

\* weighted_choice of generate_members.py: after the pass,
\* "return list(choices_dict.keys())[-1]", an IndexError on an empty dict.
WeightedChoice(choices_dict, rand) ==
    LET r == CumulativePass(choices_dict, rand, 0)
    IN  IF r.found THEN Returned(r.label)
        ELSE IF choices_dict = <<>> THEN Raised("IndexError")
        ELSE Returned(choices_dict[Len(choices_dict)][1])

\* random.choices(choices, weights=weights, k=1)[0] of the weighted_choice
\* methods: cum_weights[-1] of an empty list is an IndexError, a total that
\* is not positive a ValueError, else the first index whose cumulative
\* weight is above random() * total (bisect).
RECURSIVE Bisect(_, _, _)
Bisect(dist, rand, cumulative) ==
    IF Len(dist) = 1 THEN Head(dist)[1]
    ELSE LET c == cumulative + Head(dist)[2]
         IN  IF rand < 2 * c THEN Head(dist)[1] ELSE Bisect(Tail(dist), rand, c)

RandomChoices(choices_dict, rand) ==
    IF choices_dict = <<>> THEN Raised("IndexError")
    ELSE IF Total(choices_dict) <= 0 THEN Raised("ValueError")
    ELSE Returned(Bisect(choices_dict, rand, 0))

\* The draws: random.random() * 100 and random.random() are below the top
\* of the range, random.uniform(0, total) can reach it.
DrawsBelow(top) == 0..(2 * top - 1)

DrawsUpTo(top) == 0..(2 * top)

\* Degenerate distributions: the empty dict and dicts of zero weights.
EmptyDist == <<>>

ZeroDist == << <<"F", 0>>, <<"M", 0>> >>

ZeroLines == << <<1, 0>>, <<2, 0>> >>

Degenerate(dist) == Total(dist) = 0

SamplerArgs(f) ==
    CASE f = "select_state" -> [rand : DrawsBelow(1000)]
      [] f \in {"select_pharmacy_type", "choose_scenario", "choose_relationship"} ->
           [rand : DrawsBelow(100)]
      [] f = "weighted_choice" ->
           UNION {[choices_dict : {d}, rand : DrawsUpTo(Total(d))] :
                     d \in {GENDER_DIST, US_STATES, EmptyDist, ZeroDist}}
      [] f = "ClaimLineGenerator.weighted_choice" ->
           UNION {[choices_dict : {d}, rand : DrawsBelow(Total(d)) \cup {0}] :
                     d \in {LINES_PER_CLAIM_DISTRIBUTION, EmptyDist, ZeroLines}}

Samplers ==
    {"select_state", "select_pharmacy_type", "choose_scenario", "choose_relationship",
     "weighted_choice", "ClaimLineGenerator.weighted_choice"}

CallSelectState ==
    /\ fn = "select_state"
    /\ ret = Pending
    /\ ret' = Returned(SelectState(args.rand))
    /\ UNCHANGED <<fn, args>>
    /\ UNCHANGED notCall

CallSelectPharmacyType ==
    /\ fn = "select_pharmacy_type"
    /\ ret = Pending
    /\ ret' = Returned(SelectPharmacyType(args.rand))
    /\ UNCHANGED <<fn, args>>
    /\ UNCHANGED notCall

CallChooseScenario ==
    /\ fn = "choose_scenario"
    /\ ret = Pending
    /\ ret' = Returned(ChooseScenario(args.rand))
    /\ UNCHANGED <<fn, args>>
    /\ UNCHANGED notCall

CallChooseRelationship ==
    /\ fn = "choose_relationship"
    /\ ret = Pending
    /\ ret' = Returned(ChooseRelationship(args.rand))
    /\ UNCHANGED <<fn, args>>
    /\ UNCHANGED notCall

CallWeightedChoice ==
    /\ fn = "weighted_choice"
    /\ ret = Pending
    /\ ret' = WeightedChoice(args.choices_dict, args.rand)
    /\ UNCHANGED <<fn, args>>
    /\ UNCHANGED notCall

CallRandomChoices ==
    /\ fn = "ClaimLineGenerator.weighted_choice"
    /\ ret = Pending
    /\ ret' = RandomChoices(args.choices_dict, args.rand)
    /\ UNCHANGED <<fn, args>>
    /\ UNCHANGED notCall

(***************************************************************************)
(* generate_formularies.py: the formulary codes of one run.  Names are     *)
(* sequences of characters so that the slice [:4] is computed; the tables  *)
(* hold upper-case names only, which upper() leaves as they are.  The      *)
(* segment counts and the carrier lists are scaled down.                   *)
(***************************************************************************)

MEDICARE_PART_D == 2

MEDICARE_ADVANTAGE == 2

COMMERCIAL == 1

MEDICAID == 1

FEDERAL == 1

REGIONAL_SPECIALTY == 1

HUMANA == <<"H", "U", "M", "A", "N", "A">>

WELLCARE == <<"W", "E", "L", "L", "C", "A", "R", "E">>

UNITED_HEALTHCARE ==
    <<"U", "N", "I", "T", "E", "D", "_", "H", "E", "A", "L", "T", "H", "C", "A", "R", "E">>

ANTHEM == <<"A", "N", "T", "H", "E", "M">>

CENTENE == <<"C", "E", "N", "T", "E", "N", "E">>

MOLINA == <<"M", "O", "L", "I", "N", "A">>

VA == <<"V", "A">>

FEHB_BCBS == <<"F", "E", "H", "B", "_", "B", "C", "B", "S">>

FEHB_AETNA == <<"F", "E", "H", "B", "_", "A", "E", "T", "N", "A">>

SegmentName ==
    [MEDICARE_PART_D |-> <<"M", "E", "D", "I", "C", "A", "R", "E", "_", "P", "A", "R", "T", "_", "D">>,
     MEDICARE_ADVANTAGE |-> <<"M", "E", "D", "I", "C", "A", "R", "E", "_", "A", "D", "V", "A", "N", "T", "A", "G", "E">>,
     COMMERCIAL |-> <<"C", "O", "M", "M", "E", "R", "C", "I", "A", "L">>,
     MEDICAID |-> <<"M", "E", "D", "I", "C", "A", "I", "D">>,
     FEDERAL |-> <<"F", "E", "D", "E", "R", "A", "L">>,
     REGIONAL |-> <<"R", "E", "G", "I", "O", "N", "A", "L">>]

\* CARRIERS: the first carriers of each list (REGIONAL has no entry).
CARRIERS ==
    [MEDICARE_PART_D |-> <<HUMANA, WELLCARE>>,
     MEDICARE_ADVANTAGE |-> <<HUMANA, UNITED_HEALTHCARE>>,
     COMMERCIAL |-> <<UNITED_HEALTHCARE, ANTHEM>>,
     MEDICAID |-> <<CENTENE, MOLINA>>,
     FEDERAL |-> <<VA, FEHB_BCBS, FEHB_AETNA>>]

\* CARRIERS.get(segment, CARRIERS['COMMERCIAL'])
CarriersOf(segment) ==
    IF segment \in DOMAIN CARRIERS THEN CARRIERS[segment] ELSE CARRIERS["COMMERCIAL"]

\* The list "segments" of generate_all_formularies, in its order.
Segments ==
    << <<"MEDICARE_PART_D", MEDICARE_PART_D>>, <<"MEDICARE_ADVANTAGE", MEDICARE_ADVANTAGE>>,
       <<"COMMERCIAL", COMMERCIAL>>, <<"MEDICAID", MEDICAID>>, <<"FEDERAL", FEDERAL>>,
       <<"REGIONAL", REGIONAL_SPECIALTY>> >>

\* s[:4]
First4(s) == SubSeq(s, 1, Min(4, Len(s)))

\* f"{sequence:04d}": at least four digits.
Format04d(n) ==
    IF n < 10 THEN <<0, 0, 0>> \o Digits(n)
    ELSE IF n < 100 THEN <<0, 0>> \o Digits(n)
    ELSE IF n < 1000 THEN <<0>> \o Digits(n)
    ELSE Digits(n)

\* f"FORM-{segment[:4].upper()}-{carrier[:4].upper()}-{year}-{sequence:04d}"
generate_formulary_code(segment, carrier, sequence) ==
    <<"FORM", First4(SegmentName[segment]), First4(carrier), 2024, Format04d(sequence)>>

\* generate_formularies_for_segment: formulary i (from 0) takes the carrier
\* random.choice drew for it and the sequence number i + 1.
generate_formularies_for_segment(segment, count, choice) ==
    [i \in 1..count |->
        [market_segment |-> segment,
         carrier |-> CarriersOf(segment)[choice[i]],
         formulary_code |-> generate_formulary_code(segment, CarriersOf(segment)[choice[i]], i)]]

\* generate_all_formularies: the segments one after the other, extended
\* into one list.
RECURSIVE ExtendAll(_, _)
ExtendAll(k, choices) ==
    IF k = 0 THEN <<>>
    ELSE ExtendAll(k - 1, choices)
         \o generate_formularies_for_segment(Segments[k][1], Segments[k][2], choices[k])

generate_all_formularies(choices) == ExtendAll(Len(Segments), choices)

\* The draws of random.choice(carriers), one per formulary of each segment.
ChoicesFor(k) == [1..Segments[k][2] -> 1..Len(CarriersOf(Segments[k][1]))]

CarrierChoices ==
    {<<a, b, c, d, e, f>> : a \in ChoicesFor(1), b \in ChoicesFor(2), c \in ChoicesFor(3),
                            d \in ChoicesFor(4), e \in ChoicesFor(5), f \in ChoicesFor(6)}

CallGenerateAllFormularies ==
    /\ fn = "generate_all_formularies"
    /\ ret = Pending
    /\ ret' = Returned(generate_all_formularies(args.choices))
    /\ UNCHANGED <<fn, args>>
    /\ UNCHANGED notCall


(***************************************************************************)
(* The member numbers on the rows the two enrollment generators write, as  *)
(* a function of the loaded member list and of the random draws.           *)
(***************************************************************************)

\* Bound: the longest member list.
MaxMembers == 6

\* data/generate_enrollments.py main, the while loop: pass t takes the next
\* member while member_index < len(member_ids) and a random.choice of the
\* list afterwards; the scenario gives scenario_rows[t] enrollments, written
\* one by one until total_enrollments reaches TOTAL_RECORDS.
RECURSIVE EnrollmentsWhile(_, _, _, _, _)
EnrollmentsWhile(member_ids, scenario_rows, choices, t, written) ==
    IF Len(written) >= TOTAL_RECORDS THEN written
    ELSE LET member_index == Min(t - 1, Len(member_ids))
             member_id == IF member_index < Len(member_ids)
                          THEN member_ids[member_index + 1]
                          ELSE member_ids[choices[t - Len(member_ids)]]
             rows == Min(scenario_rows[t], TOTAL_RECORDS - Len(written))
         IN  EnrollmentsWhile(member_ids, scenario_rows, choices, t + 1,
                              written \o [i \in 1..rows |-> member_id])

EnrollmentsMainRows(member_ids, scenario_rows, choices) ==
    [written |-> EnrollmentsWhile(member_ids, scenario_rows, choices, 1, <<>>)]

\* scripts/generate_enrollments.py generate_all_enrollments: the for loop
\* over member_numbers with the flush of ENROLLMENTS_PER_FILE rows, then
\* the remaining rows; the value is the list of files written.
RECURSIVE EnrollmentsFor(_, _, _, _, _)
EnrollmentsFor(member_numbers, rows_of, k, all_enrollments, written_files) ==
    IF k > Len(member_numbers)
    THEN IF all_enrollments # <<>> THEN Append(written_files, all_enrollments) ELSE written_files
    ELSE LET extended == all_enrollments \o [i \in 1..rows_of[k] |-> member_numbers[k]]
         IN  IF Len(extended) >= ENROLLMENTS_PER_FILE
             THEN EnrollmentsFor(member_numbers, rows_of, k + 1,
                                 SubSeq(extended, ENROLLMENTS_PER_FILE + 1, Len(extended)),
                                 Append(written_files, SubSeq(extended, 1, ENROLLMENTS_PER_FILE)))
             ELSE EnrollmentsFor(member_numbers, rows_of, k + 1, extended, written_files)

RECURSIVE Concat(_)
Concat(ss) == IF ss = <<>> THEN <<>> ELSE Head(ss) \o Concat(Tail(ss))

AllEnrollmentsRows(member_numbers, rows_of) ==
    [written |-> Concat(EnrollmentsFor(member_numbers, rows_of, 1, <<>>, <<>>))]

\* The member lists, and the draws of a run over each.
EnrollmentsMainArgs ==
    UNION {[member_ids : {Ids(n)},
            scenario_rows : [1..TOTAL_RECORDS -> EnrollmentsPerScenario],
            choices : [1..(IF n < TOTAL_RECORDS THEN TOTAL_RECORDS - n ELSE 0) -> 1..n]] :
             n \in 1..MaxMembers}

AllEnrollmentsArgs ==
    UNION {[member_numbers : {Ids(n)}, rows_of : [1..n -> EnrollmentsPerMember]] :
             n \in 1..MaxMembers}

CallEnrollmentsMain ==
    /\ fn = "data.generate_enrollments.main"
    /\ ret = Pending
    /\ ret' = Returned(EnrollmentsMainRows(args.member_ids, args.scenario_rows, args.choices))
    /\ UNCHANGED <<fn, args>>
    /\ UNCHANGED notCall

CallGenerateAllEnrollments ==
    /\ fn = "generate_all_enrollments"
    /\ ret = Pending
    /\ ret' = Returned(AllEnrollmentsRows(args.member_numbers, args.rows_of))
    /\ UNCHANGED <<fn, args>>
    /\ UNCHANGED notCall


(***************************************************************************)
(* fix_pharmacy_network_data.py.  A csv field is the sequence of its       *)
(* characters; a row is the sequence of its fields.                        *)
(***************************************************************************)

DigitChars == <<"0", "1", "2", "3", "4", "5", "6", "7", "8", "9">>

IsDigit(c) == \E i \in 1..10 : DigitChars[i] = c

DigitValue(c) == (CHOOSE i \in 1..10 : DigitChars[i] = c) - 1

\* str(n) for n >= 0.
Str(n) == [i \in 1..Len(Digits(n)) |-> DigitChars[Digits(n)[i] + 1]]

RECURSIVE Zeros(_)
Zeros(k) == IF k <= 0 THEN <<>> ELSE <<"0">> \o Zeros(k - 1)

\* f"{n:0{width}d}" for n >= 0: zeros in front up to the width, never cut.
ZeroPadded(n, width) == Zeros(width - Len(Str(n))) \o Str(n)

RECURSIVE DigitsValue(_)
DigitsValue(s) ==
    IF s = <<>> THEN 0 ELSE 10 * DigitsValue(SubSeq(s, 1, Len(s) - 1)) + DigitValue(s[Len(s)])

AllDigits(s) == s # <<>> /\ \A i \in 1..Len(s) : IsDigit(s[i])

\* int(s) of a decimal text with an optional sign; anything else here is a
\* ValueError.
IntRaises(s) ==
    IF s # <<>> /\ s[1] \in {"+", "-"} THEN ~AllDigits(Tail(s)) ELSE ~AllDigits(s)

IntOf(s) ==
    IF s[1] = "-" THEN 0 - DigitsValue(Tail(s))
    ELSE IF s[1] = "+" THEN DigitsValue(Tail(s))
    ELSE DigitsValue(s)

PHARM == <<"P", "H", "A", "R", "M">>

\* s.startswith(prefix)
StartsWith(s, prefix) == Len(s) >= Len(prefix) /\ SubSeq(s, 1, Len(prefix)) = prefix

\* The largest valid pharmacy number.
MaxPharmacyNumber == 50000

\* A wrap by the plain remainder, which sends the multiples of 50000 to 0.
FixPharmacyIdPlainRemainder(pharmacy_id) ==
    IF ~StartsWith(pharmacy_id, PHARM) THEN pharmacy_id
    ELSE IF IntRaises(SubSeq(pharmacy_id, 6, Len(pharmacy_id))) THEN pharmacy_id
    ELSE LET id_num == IntOf(SubSeq(pharmacy_id, 6, Len(pharmacy_id)))
         IN  IF id_num > MaxPharmacyNumber
             THEN PHARM \o ZeroPadded(id_num % MaxPharmacyNumber, 8)
             ELSE pharmacy_id

fix_pharmacy_id(pharmacy_id) ==
    IF ~StartsWith(pharmacy_id, PHARM) THEN pharmacy_id
    ELSE IF IntRaises(SubSeq(pharmacy_id, 6, Len(pharmacy_id))) THEN pharmacy_id
    ELSE LET id_num == IntOf(SubSeq(pharmacy_id, 6, Len(pharmacy_id)))
         IN  IF id_num > MaxPharmacyNumber
             THEN LET new_id_num == ((id_num - 1) % MaxPharmacyNumber) + 1
                  IN  PHARM \o ZeroPadded(new_id_num, 8)
             ELSE pharmacy_id

\* The pharmacy numbers tried: around 1, around each of the first multiples
\* of 50000, and one of nine digits.
PharmacyNumbers ==
    (0..2) \cup (49999..50002) \cup (99999..100002) \cup (149999..150001) \cup {123456789}

\* f"PHARM{n:08d}", as generate_pharmacy_networks writes the ids.
PharmacyId(n) == PHARM \o ZeroPadded(n, 8)

\* Ids that are not of that form: no padding, a sign, no number, a number
\* with a letter, another prefix, lower case, and the empty field.
OtherPharmacyIds ==
    {PHARM \o Str(n) : n \in {7, 50000, 50001, 100000}}
    \cup {PHARM \o <<"+">> \o Str(50001), PHARM \o <<"-">> \o Str(50001), PHARM,
          PHARM \o <<"5", "x">>, <<"P", "H", "X">> \o ZeroPadded(50001, 8),
          <<"p", "h", "a", "r", "m">> \o ZeroPadded(50001, 8), <<>>}

PharmacyIds == {PharmacyId(n) : n \in PharmacyNumbers} \cup OtherPharmacyIds

CallFixPharmacyId ==
    /\ fn = "fix_pharmacy_id"
    /\ ret = Pending
    /\ ret' = Returned(fix_pharmacy_id(args.pharmacy_id))
    /\ UNCHANGED <<fn, args>>
    /\ UNCHANGED notCall


\* Bound: the data rows of a pharmacy-network file.
MaxDataRows == 2

\* datetime.strptime(s, '%Y-%m-%d'): four digits, one or two digits for a
\* month 1..12, one or two digits for a day of that month; anything else is
\* a ValueError.
Dashes(s) == {i \in 1..Len(s) : s[i] = "-"}

YearText(s) == SubSeq(s, 1, (CHOOSE i \in Dashes(s) : \A j \in Dashes(s) : i <= j) - 1)

MonthText(s) ==
    SubSeq(s, (CHOOSE i \in Dashes(s) : \A j \in Dashes(s) : i <= j) + 1,
              (CHOOSE i \in Dashes(s) : \A j \in Dashes(s) : i >= j) - 1)

DayText(s) == SubSeq(s, (CHOOSE i \in Dashes(s) : \A j \in Dashes(s) : i >= j) + 1, Len(s))

IsLeap(y) == y % 4 = 0 /\ (y % 100 # 0 \/ y % 400 = 0)

DaysInMonth(y, m) ==
    IF m = 2 THEN (IF IsLeap(y) THEN 29 ELSE 28)
    ELSE IF m \in {4, 6, 9, 11} THEN 30 ELSE 31

StrptimeRaises(s) ==
    ~ /\ Cardinality(Dashes(s)) = 2
      /\ AllDigits(YearText(s)) /\ Len(YearText(s)) = 4 /\ DigitsValue(YearText(s)) >= 1
      /\ AllDigits(MonthText(s)) /\ Len(MonthText(s)) <= 2
      /\ DigitsValue(MonthText(s)) \in 1..12
      /\ AllDigits(DayText(s)) /\ Len(DayText(s)) <= 2
      /\ DigitsValue(DayText(s)) \in
           1..DaysInMonth(DigitsValue(YearText(s)), DigitsValue(MonthText(s)))

Strptime(s) ==
    [year |-> DigitsValue(YearText(s)), month |-> DigitsValue(MonthText(s)),
     day |-> DigitsValue(DayText(s))]

\* a < b for two datetimes at midnight.
Earlier(a, b) ==
    \/ a.year < b.year
    \/ a.year = b.year /\ a.month < b.month
    \/ a.year = b.year /\ a.month = b.month /\ a.day < b.day

\* A fix that leaves every range as it is.
FixDateRangeKeeping(effective_date, termination_date) ==
    <<effective_date, termination_date>>

fix_date_range(effective_date, termination_date) ==
    IF effective_date = <<>> \/ termination_date = <<>>
    THEN <<effective_date, termination_date>>
    ELSE IF StrptimeRaises(effective_date) \/ StrptimeRaises(termination_date)
    THEN <<effective_date, termination_date>>
    ELSE IF Earlier(Strptime(termination_date), Strptime(effective_date))
    THEN <<effective_date, <<>> >>
    ELSE <<effective_date, termination_date>>

\* The body of the for loop of process_file for a row of 16 fields or more
\* (row[1], row[6] and row[7] are fields[2], [7] and [8] here).
FixedRow(fields) ==
    LET fixed_pharmacy_id == fix_pharmacy_id(fields[2])
        fixed == fix_date_range(fields[7], fields[8])
        with_id == IF fields[2] # fixed_pharmacy_id THEN [fields EXCEPT ![2] = fixed_pharmacy_id]
                   ELSE fields
    IN  IF fields[8] # fixed[2] THEN [with_id EXCEPT ![7] = fixed[1], ![8] = fixed[2]]
        ELSE with_id

\* process_file: the header and the rows of fewer than 16 fields as read,
\* the other rows fixed, all written back in the order read; and the two
\* counts it returns.
process_file(input_file) ==
    LET long == {i \in 2..Len(input_file) : Len(input_file[i]) >= 16}
    IN  [rows |-> [i \in 1..Len(input_file) |->
                     IF i \in long THEN FixedRow(input_file[i]) ELSE input_file[i]],
         fixed_pharmacy_ids |->
             Cardinality({i \in long : input_file[i][2] # fix_pharmacy_id(input_file[i][2])}),
         fixed_date_ranges |->
             Cardinality({i \in long :
                 input_file[i][8] # fix_date_range(input_file[i][7], input_file[i][8])[2]})]

\* strftime('%Y-%m-%d')
DateText(y, m, d) ==
    ZeroPadded(y, 4) \o <<"-">> \o ZeroPadded(m, 2) \o <<"-">> \o ZeroPadded(d, 2)

\* A field the fixes do not look at.
OtherField == <<"x">>

\* A row of the 16 columns of a pharmacy-network file.
NetworkRow(pharmacy_id, effective_date, termination_date) ==
    <<OtherField, pharmacy_id, OtherField, OtherField, OtherField, OtherField,
      effective_date, termination_date>> \o [i \in 1..8 |-> OtherField]

\* The rows tried: ids in and out of range; ranges that are valid, equal,
\* invalid by a day and by a year, open, without effective date, with a date
\* that does not parse, with a date without padding; a row of 15 fields, a
\* row of 17 fields and an empty row.
NetworkRows ==
    LET bad == NetworkRow(PharmacyId(50001), DateText(2024, 3, 15), DateText(2024, 3, 14))
    IN  {bad,
         NetworkRow(PharmacyId(50000), DateText(2024, 3, 15), DateText(2024, 3, 15)),
         NetworkRow(PharmacyId(100000), DateText(2024, 3, 15), <<>>),
         NetworkRow(PHARM \o Str(7), <<>>, DateText(2024, 3, 14)),
         NetworkRow(PharmacyId(50001), <<"n", "/", "a">>, DateText(2024, 3, 14)),
         NetworkRow(PharmacyId(50000), DateText(2024, 3, 15), DateText(2024, 2, 30)),
         NetworkRow(PharmacyId(50000), DateText(2024, 3, 15),
                    Str(2024) \o <<"-">> \o Str(3) \o <<"-">> \o Str(1)),
         NetworkRow(PharmacyId(50000), DateText(2024, 12, 1), DateText(2025, 1, 1)),
         NetworkRow(PharmacyId(50000), DateText(2024, 3, 15), DateText(2023, 12, 31)),
         SubSeq(bad, 1, 15),
         Append(bad, OtherField),
         <<>>}

NetworkHeader == [i \in 1..16 |-> <<"h">>]

NetworkFiles ==
    UNION {{<<NetworkHeader>> \o data : data \in [1..n -> NetworkRows]} : n \in 0..MaxDataRows}

\* The first run of process_file on the file.
CallProcessFile ==
    /\ fn = "process_file"
    /\ ret = Pending
    /\ ret' = Returned([run |-> 1, file |-> process_file(args.input_file)])
    /\ UNCHANGED <<fn, args>>
    /\ UNCHANGED notCall

\* A second run on the file the first run wrote back.
CallProcessFileAgain ==
    /\ fn = "process_file"
    /\ ret # Pending
    /\ ret.value.run = 1
    /\ ret' = Returned([run |-> 2, file |-> process_file(ret.value.file.rows)])
    /\ UNCHANGED <<fn, args>>
    /\ UNCHANGED notCall


(***************************************************************************)
(* generate_drugs.py: the NDC codes of a run.                              *)
(***************************************************************************)

TOTAL_DRUGS == 20000

\* f"{manufacturer_code:05d}-{product_code:04d}-{package_code:02d}"
generate_ndc_code(manufacturer_code, product_code, package_code) ==
    ZeroPadded(manufacturer_code, 5) \o <<"-">> \o ZeroPadded(product_code, 4)
        \o <<"-">> \o ZeroPadded(package_code, 2)

\* generate_drug, the NDC code: product_code is the sequence number, the
\* other two codes are the draws of random.randint.
DrugNdcCode(sequence, draws) ==
    generate_ndc_code(draws.manufacturer_code, sequence, draws.package_code)

\* The sequence numbers looked at, of range(1, TOTAL_DRUGS + 1): the ends
\* and the numbers around each new digit.
DrugSequences ==
    {s \in {1, 2, 9, 10, 999, 1000, 9999, 10000, 10001, TOTAL_DRUGS} : s \in 1..TOTAL_DRUGS}

\* randint(1, 99999) and randint(1, 99): the ends.
NdcDraws == [manufacturer_code : {1, 99999}, package_code : {1, 99}]

\* Two drugs of one run of generate_all_drugs, with the draws of each.
DrugPairs ==
    {<<a, b>> \in [sequence : DrugSequences, draws : NdcDraws]
                  \X [sequence : DrugSequences, draws : NdcDraws] : a.sequence < b.sequence}

\* generate_all_drugs, as seen on two of its drugs.
CallGenerateAllDrugs ==
    /\ fn = "generate_all_drugs"
    /\ ret = Pending
    /\ ret' = Returned([i \in 1..2 |->
                  [sequence |-> args.drugs[i].sequence,
                   ndc_code |-> DrugNdcCode(args.drugs[i].sequence, args.drugs[i].draws)]])
    /\ UNCHANGED <<fn, args>>
    /\ UNCHANGED notCall


(***************************************************************************)
(* generate_pharmacy_networks.py: the dates of a network record.  A        *)
(* datetime is a day, counted from the day of the run (0), and the seconds *)
(* into that day; the text strftime('%Y-%m-%d') gives keeps the day only,  *)
(* written <<day>>, and the empty string is <<>>.                          *)
(***************************************************************************)

NETWORK_STATUS == <<"Active", "Active", "Active", "Active", "Inactive", "Pending">>

\* datetime.now(): the day of the run, at midnight or later in the day.
DatetimeNow(seconds) == [day |-> 0, seconds |-> seconds]

\* d - timedelta(days=n) and d + timedelta(days=n)
MinusDays(d, n) == [d EXCEPT !.day = @ - n]

PlusDays(d, n) == [d EXCEPT !.day = @ + n]

\* d.strftime('%Y-%m-%d') and datetime.strptime(s, '%Y-%m-%d')
StrftimeDay(d) == <<d.day>>

StrptimeDay(s) == [day |-> s[1], seconds |-> 0]

\* a > b for two datetimes
Later(a, b) == a.day > b.day \/ (a.day = b.day /\ a.seconds > b.seconds)

\* generate_effective_date
generate_effective_date(draws) == StrftimeDay(MinusDays(DatetimeNow(draws.seconds), draws.days_ago))

\* generate_termination_date
generate_termination_date(effective_date, status, draws) ==
    IF status = "Active"
    THEN IF draws.random < 90 THEN <<>>
         ELSE StrftimeDay(PlusDays(StrptimeDay(effective_date), draws.days_future))
    ELSE IF status = "Inactive"
    THEN LET term_date == PlusDays(StrptimeDay(effective_date), draws.days_after)
         IN  IF Later(term_date, DatetimeNow(draws.seconds))
             THEN StrftimeDay(MinusDays(DatetimeNow(draws.seconds), draws.days_back))
             ELSE StrftimeDay(term_date)
    ELSE <<>>

\* generate_pharmacy_network_record: the status and the two dates.
generate_pharmacy_network_record(draws) ==
    [status |-> draws.status,
     effective_date |-> generate_effective_date(draws),
     termination_date |->
         generate_termination_date(generate_effective_date(draws), draws.status, draws)]

\* The draws tried: random.choice(NETWORK_STATUS); randint(0, 1825) at its
\* ends and around the shortest contract; random.random() in hundredths
\* around 0.9; the ends of randint(30, 730), randint(180, 1095) and
\* randint(1, 365); the clock at midnight and after.
NetworkRecordDraws ==
    [status : Range(NETWORK_STATUS), days_ago : {0, 1, 179, 180, 181, 1825},
     random : {0, 89, 90, 99}, days_future : {30, 730}, days_after : {180, 1095},
     days_back : {1, 365}, seconds : {0, 1}]

CallGeneratePharmacyNetworkRecord ==
    /\ fn = "generate_pharmacy_network_record"
    /\ ret = Pending
    /\ ret' = Returned(generate_pharmacy_network_record(args))
    /\ UNCHANGED <<fn, args>>
    /\ UNCHANGED notCall


\* One call: the function and its arguments are fixed at the start.
InitCall ==
    /\ fn \in {"assign_tier", "apply_utilization_management", "generate_all_formularies",
               "data.generate_enrollments.main", "generate_all_enrollments",
               "fix_pharmacy_id", "process_file", "generate_all_drugs",
               "generate_pharmacy_network_record"}
              \cup Samplers
    /\ args \in CASE fn = "assign_tier" -> AssignTierArgs
                  [] fn = "apply_utilization_management" -> ApplyUmArgs
                  [] fn = "generate_all_formularies" -> [choices : CarrierChoices]
                  [] fn = "data.generate_enrollments.main" -> EnrollmentsMainArgs
                  [] fn = "generate_all_enrollments" -> AllEnrollmentsArgs
                  [] fn = "fix_pharmacy_id" -> [pharmacy_id : PharmacyIds]
                  [] fn = "process_file" -> [input_file : NetworkFiles]
                  [] fn = "generate_all_drugs" -> [drugs : DrugPairs]
                  [] fn = "generate_pharmacy_network_record" -> NetworkRecordDraws
                  [] OTHER -> SamplerArgs(fn)
    /\ ret = Pending
    /\ IdleRepro
    /\ IdlePricing
    /\ IdleSelect
    /\ IdleRun
    /\ IdleInteractions

NextCall ==
    \/ CallAssignTier
    \/ CallApplyUtilizationManagement
    \/ CallSelectState
    \/ CallSelectPharmacyType
    \/ CallChooseScenario
    \/ CallChooseRelationship
    \/ CallWeightedChoice
    \/ CallRandomChoices
    \/ CallGenerateAllFormularies
    \/ CallEnrollmentsMain
    \/ CallGenerateAllEnrollments
    \/ CallFixPharmacyId
    \/ CallProcessFile
    \/ CallProcessFileAgain
    \/ CallGenerateAllDrugs
    \/ CallGeneratePharmacyNetworkRecord

SpecCall == InitCall /\ [][NextCall]_vars

(***************************************************************************)
(* Two runs of one generator script on the same input files with the same  *)
(* sequence of random draws (SpecRepro).  The runs happen one after the    *)
(* other; each row takes its fields from the draws, from the counters,     *)
(* from the wall clock (datetime.now()) or from the operating system's     *)
(* entropy (uuid.uuid4()).                                                 *)
(***************************************************************************)

\* Bounds: the rows of a run, the seconds of wall clock the two runs can
\* span and the values uuid4 can take.
RowsPerRun == 2
MaxNow == 3
UuidSpace == 2

ReproScripts == {"formularies_drugs", "plan_rules", "claim_lines"}

Seeds == {42, 7}

\* The k-th draw of random.random() after random.seed(seed), in hundredths:
\* a fixed function of the seed and of the position in the sequence.
DrawOf(seed, k) == (seed * 37 + k * 61) % 100

\* uuid.uuid4(): os.urandom, not the seeded generator.
Uuid4 == 1..UuidSpace

\* datetime.now() in whole seconds, as strftime('%Y-%m-%d %H:%M:%S') keeps
\* it: not before the last reading.
Now == now..MaxNow

\* generate_formulary_drug_record: the id is a uuid4, the tier comes from
\* the seeded draws.
FormularyDrugRecord(seq, seed, uuid) ==
    [formulary_drug_id |-> uuid,
     tier |-> AssignTier([is_generic |-> "false", is_brand |-> "true", is_specialty |-> "true"],
                         5, DrawOf(seed, seq))]

\* generate_rule: rule_id from the counter, created_at = datetime.now() -
\* timedelta(days=random.randint(0, 365)); days and seconds are kept apart.
Rule(seq, seed, t) ==
    [rule_id |-> seq,
     created_at |-> [days_back |-> DrawOf(seed, seq), time |-> t]]

\* generate_claim_line: claim_line_id from the counter, processing_time_ms
\* from the seeded draws, created_at = datetime.now().
ClaimLine(seq, seed, t) ==
    [claim_line_id |-> seq,
     processing_time_ms |-> 50 + DrawOf(seed, seq),
     created_at |-> t]

GenerateFormularyDrugRecord ==
    /\ script = "formularies_drugs"
    /\ run_no \in {1, 2}
    /\ Len(out[run_no]) < RowsPerRun
    /\ \E uuid \in Uuid4 :
          out' = [out EXCEPT ![run_no] =
                     Append(@, FormularyDrugRecord(Len(@) + 1, random_seed, uuid))]
    /\ UNCHANGED <<script, random_seed, now, run_no>>
    /\ UNCHANGED notRepro

GenerateRule ==
    /\ script = "plan_rules"
    /\ run_no \in {1, 2}
    /\ Len(out[run_no]) < RowsPerRun
    /\ \E t \in Now :
          /\ now' = t
          /\ out' = [out EXCEPT ![run_no] = Append(@, Rule(Len(@) + 1, random_seed, t))]
    /\ UNCHANGED <<script, random_seed, run_no>>
    /\ UNCHANGED notRepro

GenerateClaimLineRow ==
    /\ script = "claim_lines"
    /\ run_no \in {1, 2}
    /\ Len(out[run_no]) < RowsPerRun
    /\ \E t \in Now :
          /\ now' = t
          /\ out' = [out EXCEPT ![run_no] = Append(@, ClaimLine(Len(@) + 1, random_seed, t))]
    /\ UNCHANGED <<script, random_seed, run_no>>
    /\ UNCHANGED notRepro

\* The run ends; the next run starts with the same seed and the same input.
EndRun ==
    /\ run_no \in {1, 2}
    /\ Len(out[run_no]) = RowsPerRun
    /\ run_no' = run_no + 1
    /\ UNCHANGED <<script, random_seed, now, out>>
    /\ UNCHANGED notRepro

InitRepro ==
    /\ script \in ReproScripts
    /\ random_seed \in Seeds
    /\ now = 1
    /\ run_no = 1
    /\ out = [r \in {1, 2} |-> <<>>]
    /\ IdlePricing
    /\ IdleSelect
    /\ IdleRun
    /\ IdleCall
    /\ IdleInteractions

NextRepro ==
    \/ GenerateFormularyDrugRecord
    \/ GenerateRule
    \/ GenerateClaimLineRow
    \/ EndRun

SpecRepro == InitRepro /\ [][NextRepro]_vars

(***************************************************************************)
(* generate_drug_interactions.py: the loop that collects the records       *)
(* (SpecInteractions).  A record is kept as its two drug names; the        *)
(* random.random() of the duplicate test is in hundredths, and -1 when the *)
(* test does not reach it.                                                 *)
(***************************************************************************)

\* Bound: the largest total_records (the script asks for 20,000).
MaxTotalRecords == 4

\* DRUGS: the first names of the list of 105, in its order.
DRUGS == <<"Warfarin", "Aspirin", "Clopidogrel">>

\* The place of a name in the order sorted() puts strings in.
NameRank == [Aspirin |-> 1, Clopidogrel |-> 2, Warfarin |-> 3]

\* random.sample(DRUGS, 2): the names at two different places of the list.
SampleOfTwo == {<<DRUGS[i], DRUGS[j]>> : i, j \in 1..Len(DRUGS)} \ {<<DRUGS[i], DRUGS[i]>> : i \in 1..Len(DRUGS)}

\* generate_drug_pair: tuple(sorted([drug1, drug2])).
generate_drug_pair(smp) ==
    IF NameRank[smp[1]] <= NameRank[smp[2]] THEN <<smp[1], smp[2]>> ELSE <<smp[2], smp[1]>>

\* The values of random.random() tried, in hundredths.
DuplicateDraws == {0, 9, 10, 99}

\* A test that never lets a seen pair in.
AcceptsNoDuplicate(rand) == FALSE

\* random.random() < 0.1
AcceptsDuplicate(rand) == rand < 10

\* generate_interaction_record, the fields the loop looks at.
InteractionRecord(pair, rand) ==
    [drug_1_name |-> pair[1], drug_2_name |-> pair[2], random |-> rand]

\* A pass of the while loop with a pair not seen before: the record is
\* appended and the pair is added to seen_pairs.
AppendNewPair ==
    /\ di_pc = "collect"
    /\ Len(all_records) < total_records
    /\ \E smp \in SampleOfTwo :
          LET drug_pair == generate_drug_pair(smp)
          IN  /\ drug_pair \notin seen_pairs
              /\ record' = InteractionRecord(drug_pair, -1)
              /\ all_records' = Append(all_records, InteractionRecord(drug_pair, -1))
              /\ seen_pairs' = seen_pairs \cup {drug_pair}
    /\ UNCHANGED <<total_records, di_pc>>
    /\ UNCHANGED notInteractions

\* A pass with a pair seen before and a random.random() below 0.1.
AppendDuplicate ==
    /\ di_pc = "collect"
    /\ Len(all_records) < total_records
    /\ \E smp \in SampleOfTwo, rand \in DuplicateDraws :
          LET drug_pair == generate_drug_pair(smp)
          IN  /\ drug_pair \in seen_pairs
              /\ AcceptsDuplicate(rand)
              /\ record' = InteractionRecord(drug_pair, rand)
              /\ all_records' = Append(all_records, InteractionRecord(drug_pair, rand))
              /\ seen_pairs' = seen_pairs \cup {drug_pair}
    /\ UNCHANGED <<total_records, di_pc>>
    /\ UNCHANGED notInteractions

\* A pass with a pair seen before and a random.random() of 0.1 or more: the
\* record is dropped.
DiscardDuplicate ==
    /\ di_pc = "collect"
    /\ Len(all_records) < total_records
    /\ \E smp \in SampleOfTwo, rand \in DuplicateDraws :
          LET drug_pair == generate_drug_pair(smp)
          IN  /\ drug_pair \in seen_pairs
              /\ ~AcceptsDuplicate(rand)
              /\ record' = InteractionRecord(drug_pair, rand)
    /\ UNCHANGED <<total_records, all_records, seen_pairs, di_pc>>
    /\ UNCHANGED notInteractions

\* "while len(all_records) < total_records" is false: the loop is over.
CollectionEnds ==
    /\ di_pc = "collect"
    /\ ~(Len(all_records) < total_records)
    /\ di_pc' = "done"
    /\ UNCHANGED <<total_records, all_records, seen_pairs, record>>
    /\ UNCHANGED notInteractions

InitInteractions ==
    /\ total_records \in 1..MaxTotalRecords
    /\ all_records = <<>>
    /\ seen_pairs = {}
    /\ record = NoRecord
    /\ di_pc = "collect"
    /\ IdlePricing
    /\ IdleSelect
    /\ IdleRun
    /\ IdleCall
    /\ IdleRepro

NextInteractions ==
    \/ AppendNewPair
    \/ AppendDuplicate
    \/ DiscardDuplicate
    \/ CollectionEnds

\* Fair draws: a pass that appends a record is not put off for ever while a
\* sample and a random.random() that allow it exist, and the loop test is
\* made.
SpecInteractions ==
    /\ InitInteractions
    /\ [][NextInteractions]_vars
    /\ WF_vars(AppendNewPair)
    /\ WF_vars(AppendDuplicate)
    /\ WF_vars(CollectionEnds)

(***************************************************************************)
(* Claims about the claim-line pricing (SpecPricing).                      *)
(***************************************************************************)

HasLine == line # NoLine

\* The amounts of the row as first computed, from the draws kept with it.
LineUnclamped ==
    UnclampedPricing(line.tier_level,
                     AllowedAmount(BilledAmount(line.ingredient_cost, line.dispensing_fee),
                                   line.draws.fraction),
                     line.draws.copay, line.draws.deductible)

\* C1 as stated: in every claim line row, of any status, paid_amount +
\* patient_responsibility = allowed_amount and patient_responsibility <=
\* allowed_amount.
C1_PaidPlusPatientIsAllowed ==
    HasLine =>
        /\ Cents(line.paid_amount) + Cents(line.patient_responsibility)
              = Cents(line.allowed_amount)
        /\ Cents(line.patient_responsibility) <= Cents(line.allowed_amount)

\* C1 amended: patient_responsibility <= allowed_amount in every row; a row
\* that is not DENIED has paid_amount + patient_responsibility =
\* allowed_amount, and a DENIED row has paid_amount = 0.
C1_ReconcilesUnlessDenied ==
    HasLine =>
        /\ Cents(line.patient_responsibility) <= Cents(line.allowed_amount)
        /\ Cents(line.paid_amount) >= 0
        /\ line.line_status # "DENIED" =>
               Cents(line.paid_amount) + Cents(line.patient_responsibility)
                 = Cents(line.allowed_amount)
        /\ line.line_status = "DENIED" => Cents(line.paid_amount) = 0

\* A denied line whose patient pays less than the allowed amount, and a line
\* that was clamped: the cases C1 is about.
C1_Witness ==
    /\ HasLine
    /\ line.line_status = "DENIED"
    /\ Cents(line.patient_responsibility) < Cents(line.allowed_amount)

\* C2: when copay + coinsurance + deductible as first computed exceeds the
\* allowed amount, the row has patient_responsibility = allowed_amount,
\* coinsurance = deductible = 0 and (before any denial override, which can
\* only set it to 0 as well) paid_amount = 0; otherwise the clamp changes no
\* component.
C2_ClampZeroesDependents ==
    HasLine =>
        LET pre == LineUnclamped
            allowed == Cents(line.allowed_amount)
        IN  IF pre.patient_responsibility > allowed
            THEN /\ Cents(line.patient_responsibility) = allowed
                 /\ Cents(line.paid_amount) = 0
                 /\ Cents(line.coinsurance_amount) = 0
                 /\ Cents(line.deductible_amount) = 0
            ELSE /\ Cents(line.patient_responsibility) = pre.patient_responsibility
                 /\ Cents(line.copay_amount) = pre.copay
                 /\ Cents(line.coinsurance_amount) = pre.coinsurance
                 /\ Cents(line.deductible_amount) = pre.deductible

\* A line on which the clamp fired with a coinsurance and a deductible to zero.
C2_Witness ==
    /\ HasLine
    /\ LineUnclamped.patient_responsibility > Cents(line.allowed_amount)
    /\ LineUnclamped.deductible > 0
    /\ line.line_status = "APPROVED"

(***************************************************************************)
(* Claims about the formulary-drug selector (SpecSelect).                  *)
(***************************************************************************)

ProtectedRuleApplies ==
    /\ sel_pc \in {"rule2", "rule3", "rule4", "return", "returned"}
    /\ formulary.market_segment \in {"MEDICARE_PART_D", "MEDICARE_ADVANTAGE"}

ProtectedCatalog == DrugCategories(all_drugs).protected

\* round(n * 0.92): the nearest integer (no multiple of 0.92 lies on a half).
Round92(n) == (n * 92 + 50) \div 100

C4_Step ==
    LET added == selected_drugs' \ selected_drugs
        cats == DrugCategories(all_drugs)
    IN  /\ selected_drugs \subseteq selected_drugs'
        /\ sel_pc = "rule1" => sel_pc' = "rule2" /\ added \subseteq cats.protected
        /\ sel_pc = "rule2" => sel_pc' = "rule3" /\ added \subseteq cats.generic
        /\ sel_pc = "rule3" => sel_pc' = "rule4" /\ added \subseteq cats.specialty
        /\ sel_pc = "rule4" => sel_pc' = "return" /\ added \subseteq cats.brand
        /\ sel_pc = "return" => sel_pc' = "returned" /\ selection' = selected_drugs

C4_Returned ==
    sel_pc = "returned" =>
        /\ selection = selected_drugs
        /\ protected_sample \subseteq selection
        /\ Cardinality(selection) >= Cardinality(protected_sample)

\* C4: the four rules run in the fixed order protected, generic, specialty,
\* brand fill; the selected set only grows; and the returned list is the
\* whole set, not cut to target_count, so it is at least as large as the
\* protected-class sample.
C4_SelectionOnlyGrows == [] C4_Returned /\ [][C4_Step]_vars

\* A returned selection larger than target_count, holding protected drugs.
C4_Witness ==
    /\ sel_pc = "returned"
    /\ Cardinality(selection) > target_count
    /\ protected_sample # {}

(***************************************************************************)
(* Claims about the generator runs (Spec).                                 *)
(***************************************************************************)

\* C5: every foreign key of a generated row resolves to an entity of the
\* loaded reference data: ndc_code and formulary_code of a formulary-drug
\* row, ndc and claim_number of a claim line, pharmacy_id of a
\* pharmacy-network row.
C5_ForeignKeysResolve ==
    row # NoRow =>
        /\ gen = "formularies_drugs" =>
              /\ row.ndc_code \in Entities(upstream["drugs"])
              /\ row.formulary_code \in Entities(upstream["formularies"])
        /\ gen = "claim_lines" =>
              /\ row.ndc \in Entities(upstream["drugs"])
              /\ row.claim_number \in Entities(upstream["claims"])
        /\ gen = "pharmacy_networks" =>
              row.pharmacy_id \in Entities(upstream["pharmacies"])

\* C6: in every state of a rolling writer the files created are numbered
\* 1, 2, ..., k in creation order, each name is the number padded with zeros
\* to two digits, each file has exactly one header line and has it first,
\* and every file has the column list of the script.
C6_ShardsNumberedWithOneHeader ==
    gen \in RollingWriters =>
        \A i \in 1..Len(files) :
            /\ NumberOf(files[i].name) = i
            /\ files[i].name = Format02d(i)
            /\ Len(files[i].name) >= 2
            /\ files[i].lines # <<>>
            /\ files[i].lines[1] = HeaderLine
            /\ \A j \in 2..Len(files[i].lines) : files[i].lines[j] # HeaderLine
            /\ files[i].fieldnames = Headers(gen)
            /\ files[i].fieldnames = files[1].fieldnames

\* A finished run of a rolling writer with three shards or more, the first
\* of them with two data rows or more.
C6_Witness ==
    /\ gen \in RollingWriters
    /\ pc = "done"
    /\ Len(files) >= 3
    /\ Len(files[1].lines) >= 3

\* The files in the order of their names, as sorted() gives them to a
\* reader, and their data rows one after the other, headers removed.
RECURSIVE InsertByName(_, _)
InsertByName(f, s) ==
    IF s = <<>> \/ ~NameBefore(f.name, s[Len(s)].name)
    THEN Append(s, f)
    ELSE Append(InsertByName(f, SubSeq(s, 1, Len(s) - 1)), s[Len(s)])

RECURSIVE SortByName(_)
SortByName(fs) ==
    IF fs = <<>> THEN <<>>
    ELSE InsertByName(fs[Len(fs)], SortByName(SubSeq(fs, 1, Len(fs) - 1)))

IsDataLine(l) == l # HeaderLine

RECURSIVE DataRows(_)
DataRows(fs) ==
    IF fs = <<>> THEN <<>>
    ELSE DataRows(SubSeq(fs, 1, Len(fs) - 1)) \o SelectSeq(fs[Len(fs)].lines, IsDataLine)

\* C7: when a writer has finished, the data rows of its files, taken in
\* filename order and concatenated, are the rows generated, in generation
\* order.
C7_ShardsReadBackInFilenameOrder ==
    pc = "done" => DataRows(SortByName(files)) = Ids(total_generated)

\* The estimate of the open shard is within the budget.
C8_OpenShardWithinBudget ==
    gen = "data_enrollments" => current_file_size <= MAX_FILE_SIZE

\* A write of the byte-budget writer, by the size of the row written.
C8_Step ==
    (gen = "data_enrollments" /\ total_generated' = total_generated + 1) =>
        LET row_size == row'.size
            opened == Len(files') > Len(files)
        IN  /\ opened <=> current_file_size + row_size > MAX_FILE_SIZE
            /\ opened => /\ current_file_size <= MAX_FILE_SIZE
                         /\ MAX_FILE_SIZE - current_file_size < row_size
                         /\ current_file_size' = HeaderSize + row_size
            /\ ~opened => current_file_size' = current_file_size + row_size
            /\ current_file_size' <= MAX_FILE_SIZE

\* C8: in the byte-budget writer the estimate of the open shard never
\* exceeds the budget; a write opens a new shard exactly when
\* current_file_size + row_size exceeds the budget, and the shard closed
\* then is at most the budget and less than that row's size below it.
C8_ByteBudgetRollover == [] C8_OpenShardWithinBudget /\ [][C8_Step]_vars

\* A finished run of the byte-budget writer that rolled over, the second
\* shard holding a data row.
C8_Witness ==
    /\ gen = "data_enrollments"
    /\ pc = "done"
    /\ Len(files) >= 2
    /\ Len(files[2].lines) >= 2

\* C9: when a reference file a script reads is missing or empty, no output
\* file is created, no row is generated and the run does not complete.
C9_MissingReferenceAborts ==
    (\E f \in Required(gen) : upstream[f].rows = 0) =>
        /\ files = <<>>
        /\ total_generated = 0
        /\ pc # "done"

\* C10: when a rolling writer has failed at a write or an open, no shard is
\* left open.
C10_FailureClosesOpenShard ==
    (gen \in RollingWriters /\ pc = "failed") =>
        \A i \in 1..Len(files) : ~files[i].open


(***************************************************************************)
(* Claims about the single calls (SpecCall).                               *)
(***************************************************************************)

\* The category load_drugs files a drug under: generic first, then
\* specialty, then brand.
CategoryOfFlags(drug) ==
    IF drug.is_generic = "true" THEN "generic"
    ELSE IF drug.is_specialty = "true" THEN "specialty"
    ELSE IF drug.is_brand = "true" THEN "brand"
    ELSE "untagged"

AssignTierReturned == fn = "assign_tier" /\ ret # Pending

\* C11 (as stated): under every tier count the formulary generator writes
\* (3, 4, 5, 6), assign_tier gives a specialty drug one of the two highest
\* tiers of that tier count, and a brand drug tier 2 or 3.
C11_SpecialtyInTwoHighestTiers ==
    (AssignTierReturned /\ args.tier_count \in TIER_STRUCTURES) =>
        /\ CategoryOfFlags(args.drug) = "specialty" =>
              ret.value \in {args.tier_count - 1, args.tier_count}
        /\ CategoryOfFlags(args.drug) = "brand" => ret.value \in {2, 3}

\* C11 (amended): a specialty drug gets one of the two highest tiers that
\* are not above tier 5 (so tier 4 or 5, never 6, under tier count 6), and a
\* brand drug tier 2 or 3.
C11_SpecialtyInTwoHighestUpTo5 ==
    (AssignTierReturned /\ args.tier_count \in TIER_STRUCTURES) =>
        /\ CategoryOfFlags(args.drug) = "specialty" =>
              ret.value \in {Min(args.tier_count, 5) - 1, Min(args.tier_count, 5)}
        /\ CategoryOfFlags(args.drug) = "brand" => ret.value \in {2, 3}

C11_Witness ==
    /\ AssignTierReturned
    /\ args.tier_count = 6
    /\ CategoryOfFlags(args.drug) = "specialty"
    /\ ret.value = 4

\* C12: for every drug and every tier count >= 1 the tier assign_tier
\* returns is at least 1 and at most the tier count.
C12_TierWithinTierCount ==
    AssignTierReturned => (1 <= ret.value /\ ret.value <= args.tier_count)

C12_Witness ==
    /\ AssignTierReturned
    /\ args.tier_count = 2
    /\ CategoryOfFlags(args.drug) = "brand"
    /\ args.draw >= 60
    /\ ret.value = 2

\* C13: for each of the three utilization-management flags the probability
\* looked up by tier does not decrease from a tier to a higher tier, over
\* the tiers 1..5: the probabilities a call looks up for its tier are not
\* below those of any lower tier.
C13_UmProbabilityMonotone ==
    (fn = "apply_utilization_management" /\ ret # Pending /\ args.tier \in 1..5) =>
        \A flag \in UmFlags : \A t \in 1..5 :
            t < args.tier => UmRules(t)[flag] <= UmRules(args.tier)[flag]

(***************************************************************************)
(* The concrete pricing scenario (SpecPricing).                            *)
(***************************************************************************)

\* The line of the scenario: ingredient cost 40.00, dispensing fee 2.00,
\* tier 1.
ScenarioLine ==
    /\ line # NoLine
    /\ line.ingredient_cost = 4000
    /\ line.dispensing_fee = 200
    /\ line.tier_level = 1

\* What calculate_line_pricing returned for the line, from the draws kept
\* with it (the sales tax draw does not enter the amounts looked at).
ScenarioPricing ==
    CalculateLinePricing(line.tier_level, line.ingredient_cost, line.dispensing_fee,
                         line.draws.fraction, line.draws.copay, line.draws.deductible,
                         FALSE)

\* C14 (as stated): for ingredient cost 40.00, dispensing fee 2.00 and tier
\* 1, calculate_line_pricing returns billed 42.00, allowed in [33.60, 39.90],
\* patient responsibility in [5.00, 15.00] and not above allowed, and
\* paid = allowed - patient responsibility >= 0, whatever the draws.
C14_ScenarioPatientWithinCopayRange ==
    ScenarioLine =>
        LET p == ScenarioPricing
        IN  /\ p.billed_amount = 4200
            /\ 3360 <= p.allowed_amount /\ p.allowed_amount <= 3990
            /\ 500 <= p.patient_responsibility /\ p.patient_responsibility <= 1500
            /\ p.patient_responsibility <= p.allowed_amount
            /\ p.paid_amount = p.allowed_amount - p.patient_responsibility
            /\ p.paid_amount >= 0

\* C14 (amended): the same, but patient responsibility is in [5.00, 15.00]
\* only when no deductible is drawn; with a deductible it is the copay plus
\* the deductible, cut to allowed, so it lies in [5.00, allowed].  The row
\* carries the billed, allowed and patient amounts that were returned.
C14_ScenarioPatientWithinAllowed ==
    ScenarioLine =>
        LET p == ScenarioPricing
        IN  /\ p.billed_amount = 4200
            /\ 3360 <= p.allowed_amount /\ p.allowed_amount <= 3990
            /\ 500 <= p.patient_responsibility
            /\ p.patient_responsibility <= p.allowed_amount
            /\ line.draws.deductible = 0 => p.patient_responsibility <= 1500
            /\ p.paid_amount = p.allowed_amount - p.patient_responsibility
            /\ p.paid_amount >= 0
            /\ Cents(line.billed_amount) = p.billed_amount
            /\ Cents(line.allowed_amount) = p.allowed_amount
            /\ Cents(line.patient_responsibility) = p.patient_responsibility

C14_Witness ==
    /\ ScenarioLine
    /\ line.draws.deductible > 0
    /\ Cents(line.patient_responsibility) > 1500
    /\ Cents(line.patient_responsibility) < Cents(line.allowed_amount)

(***************************************************************************)
(* Claims about two runs with the same seed (SpecRepro).                   *)
(***************************************************************************)

\* C15: two runs of a generator with the same random seed and the same
\* input files produce identical output: the same rows with the same field
\* values, identifiers and timestamps included.
C15_SameSeedSameOutput == run_no = 3 => out[1] = out[2]

(***************************************************************************)
(* Claims about the categorical samplers (SpecCall).                       *)
(***************************************************************************)

\* The labels each hand-written sampler returns over all the values of its
\* draw.
SelectStateResults == {SelectState(r) : r \in DrawsBelow(1000)}

SelectPharmacyTypeResults == {SelectPharmacyType(r) : r \in DrawsBelow(100)}

ChooseScenarioResults == {ChooseScenario(r) : r \in DrawsBelow(100)}

ChooseRelationshipResults == {ChooseRelationship(r) : r \in DrawsBelow(100)}

WeightedChoiceResults(dist) ==
    {WeightedChoice(dist, r).value : r \in DrawsUpTo(Total(dist))}

\* C16: every hand-written cumulative-weight sampler can return every label
\* of positive weight: for each such label of the sampler that was called
\* there is a value of the draw that gives it.
C16_EveryPositiveLabelReachable ==
    ret # Pending =>
        /\ fn = "select_state" => PositiveLabels(US_STATES) \subseteq SelectStateResults
        /\ fn = "select_pharmacy_type" =>
              PositiveLabels(PHARMACY_TYPES) \subseteq SelectPharmacyTypeResults
        /\ fn = "choose_scenario" => PositiveLabels(SCENARIOS) \subseteq ChooseScenarioResults
        /\ fn = "choose_relationship" =>
              PositiveLabels(RELATIONSHIPS) \subseteq ChooseRelationshipResults
        /\ (fn = "weighted_choice" /\ ~Degenerate(args.choices_dict) /\ args.rand = 0) =>
              PositiveLabels(args.choices_dict) \subseteq WeightedChoiceResults(args.choices_dict)

\* C17: a categorical draw over a degenerate distribution (an empty mapping
\* or a mapping of zero weights) fails with an error and never returns a
\* label.
C17_DegenerateDistributionFails ==
    (fn \in {"weighted_choice", "ClaimLineGenerator.weighted_choice"}
        /\ ret # Pending /\ Degenerate(args.choices_dict)) =>
        ret.status = "raised"

(***************************************************************************)
(* Claims about the minted identifiers and the row counts (Spec).          *)
(***************************************************************************)

CounterMinted == {"claims", "claim_lines", "plan_rules", "pharmacy_networks"}

\* C18: within one run the counter-minted identifiers (claim_number,
\* claim_line_id, rule_id, network_id) start at 1, increase by exactly 1 per
\* generated row and are never shared by two rows, across all rollovers:
\* read in creation order, the rows of the files carry the ids 1, 2, 3, ...
C18_IdsFreshAndUnique ==
    gen \in CounterMinted =>
        LET ids == DataRows(files)
        IN  /\ ids = Ids(Len(ids))
            /\ (row # NoRow /\ pc # "failed") => row.id = Len(ids)

C18_Witness ==
    /\ gen \in CounterMinted
    /\ pc = "done"
    /\ Len(files) >= 3
    /\ Len(files[2].lines) >= 3
    /\ total_generated >= 5

\* C19: generate_claims writes exactly TOTAL_CLAIMS claim rows in total: the
\* 24 hourly batches plus the 'remaining' loop add up to TOTAL_CLAIMS.
C19_ExactlyTotalClaims ==
    (gen = "claims" /\ pc = "done") =>
        /\ total_generated = TOTAL_CLAIMS
        /\ Len(DataRows(files)) = TOTAL_CLAIMS

\* C20: at every point of a run at most one generated row (the row in
\* flight) is held in memory and not yet written to a shard, in the
\* formulary-drug generator as in the other generators.
C20_AtMostOneRowInMemory ==
    gen \in RollingWriters \cup BatchWriters => Len(buffer) <= 1

(***************************************************************************)
(* Claims about the formulary codes (SpecCall).                            *)
(***************************************************************************)

\* C21: across all formularies generate_all_formularies produces, whatever
\* carriers are drawn, no two formularies have the same formulary_code.
C21_FormularyCodesUnique ==
    (fn = "generate_all_formularies" /\ ret # Pending) =>
        \A i, j \in DOMAIN ret.value :
            ret.value[i].formulary_code = ret.value[j].formulary_code => i = j


(***************************************************************************)
(* Claims about the brand fill of the selector (SpecSelect).               *)
(***************************************************************************)

C22_Step ==
    sel_pc = "rule4" =>
        LET added == selected_drugs' \ selected_drugs
            brand_drugs == DrugCategories(all_drugs).brand
            remaining_slots == target_count - Cardinality(selected_drugs)
            available_brands == brand_drugs \ selected_drugs
        IN  /\ selected_drugs \subseteq selected_drugs'
            /\ added \subseteq available_brands
            /\ remaining_slots > 0 =>
                 /\ Cardinality(added) = Min(remaining_slots, Cardinality(available_brands))
                 /\ Cardinality(selected_drugs') <= target_count
            /\ remaining_slots <= 0 => added = {}

\* C22: the brand fill adds exactly min(target_count - |selected|, number of
\* brand drugs not yet selected) drugs when target_count - |selected| > 0 and
\* nothing otherwise; every drug added is a brand drug not already selected,
\* so the fill never raises the selected count above target_count.
C22_BrandFillExact == [][C22_Step]_vars

\* After a fill that had fewer free slots than free brand drugs: the
\* selection holds brand drugs, has reached target_count, and brand drugs
\* are left over.
C22_Witness ==
    /\ sel_pc = "return"
    /\ selected_drugs \cap DrugCategories(all_drugs).brand # {}
    /\ Cardinality(selected_drugs) = target_count
    /\ DrugCategories(all_drugs).brand \ selected_drugs # {}


(***************************************************************************)
(* Claims about the files of scripts/generate_enrollments.py (Spec).       *)
(***************************************************************************)

\* The enrollment rows of a written file: its lines without the header.
EnrollmentRows(f) == Len(f.lines) - 1

\* C29: when generate_all_enrollments has written its files, each file
\* except the last holds exactly ENROLLMENTS_PER_FILE rows, the last holds
\* between 1 and ENROLLMENTS_PER_FILE rows, and total_files (= file_number),
\* which the summary uses, is the number of files written: every file
\* number 1..total_files names a file of this run.
C29_FilesFullAndCounted ==
    (gen = "scripts_enrollments" /\ pc = "done") =>
        LET total_files == file_number
        IN  /\ \A i \in 1..(Len(files) - 1) : EnrollmentRows(files[i]) = ENROLLMENTS_PER_FILE
            /\ files # <<>> => EnrollmentRows(files[Len(files)]) \in 1..ENROLLMENTS_PER_FILE
            /\ total_files = Len(files)
            /\ \A n \in 1..total_files : \E i \in 1..Len(files) : files[i].name = Format02d(n)


(***************************************************************************)
(* Claims about the members the enrollment generators cover (SpecCall).    *)
(***************************************************************************)

\* C23: when either enrollment generator has finished over a non-empty list
\* of loaded member numbers, every loaded member number is on at least one
\* written enrollment row.
C23_EveryMemberEnrolled ==
    /\ (fn = "data.generate_enrollments.main" /\ ret # Pending /\ args.member_ids # <<>>) =>
          Range(args.member_ids) \subseteq Range(ret.value.written)
    /\ (fn = "generate_all_enrollments" /\ ret # Pending /\ args.member_numbers # <<>>) =>
          Range(args.member_numbers) \subseteq Range(ret.value.written)


(***************************************************************************)
(* Claims about fix_pharmacy_network_data.py (SpecCall).                   *)
(***************************************************************************)

\* The text after PHARM reads as a number.
HasPharmacyNumber(id) == StartsWith(id, PHARM) /\ ~IntRaises(SubSeq(id, 6, Len(id)))

PharmacyNumberOf(id) == IntOf(SubSeq(id, 6, Len(id)))

\* C24: fix_pharmacy_id turns PHARM<number> with number > 50000 into
\* PHARM<m> with 1 <= m <= 50000 and m congruent to number modulo 50000; an
\* id with a number up to 50000 and an id without the PHARM prefix come back
\* unchanged; and the function is idempotent.
C24_FixPharmacyIdWraps ==
    (fn = "fix_pharmacy_id" /\ ret # Pending) =>
        LET id == args.pharmacy_id
            fixed == ret.value
        IN  /\ (HasPharmacyNumber(id) /\ PharmacyNumberOf(id) > 50000) =>
                  /\ HasPharmacyNumber(fixed)
                  /\ PharmacyNumberOf(fixed) \in 1..50000
                  /\ PharmacyNumberOf(fixed) % 50000 = PharmacyNumberOf(id) % 50000
            /\ (HasPharmacyNumber(id) /\ PharmacyNumberOf(id) <= 50000) => fixed = id
            /\ ~StartsWith(id, PHARM) => fixed = id
            /\ fix_pharmacy_id(fixed) = fixed

\* A multiple of 50000 above 50000 has been wrapped to 50000.
C24_Witness ==
    /\ fn = "fix_pharmacy_id"
    /\ ret # Pending
    /\ args.pharmacy_id = PharmacyId(100000)
    /\ ret.value = PharmacyId(50000)


IsNdcFormat(code) ==
    /\ Len(code) = 13
    /\ code[6] = "-"
    /\ code[11] = "-"
    /\ \A i \in (1..13) \ {6, 11} : IsDigit(code[i])

\* C26: the ndc_code of every drug of a run, for every sequence number
\* 1..TOTAL_DRUGS, has the 11-digit format XXXXX-XXXX-XX, and no two drugs of
\* the run have the same ndc_code.
C26_NdcFormatAndUnique ==
    (fn = "generate_all_drugs" /\ ret # Pending) =>
        /\ \A i \in 1..2 : IsNdcFormat(ret.value[i].ndc_code)
        /\ ret.value[1].ndc_code # ret.value[2].ndc_code


(***************************************************************************)
(* Claims about the record-collection loop (SpecInteractions).             *)
(***************************************************************************)

\* The pairs of the three names in alphabetical order.
AlphabeticalPairs ==
    {<<"Aspirin", "Clopidogrel">>, <<"Aspirin", "Warfarin">>, <<"Clopidogrel", "Warfarin">>}

\* The loop never holds more than total_records records, holds exactly
\* that many when it is over, and the two names of every record differ and
\* are in order.
C27_Records ==
    /\ Len(all_records) <= total_records
    /\ di_pc = "done" => Len(all_records) = total_records
    /\ \A i \in 1..Len(all_records) :
          /\ all_records[i].drug_1_name # all_records[i].drug_2_name
          /\ <<all_records[i].drug_1_name, all_records[i].drug_2_name>> \in AlphabeticalPairs

\* A pass appends at most the record it generated, and a record whose pair
\* was seen before only when its random.random() was below 0.1.
C27_Step ==
    all_records' # all_records =>
        /\ all_records' = Append(all_records, record')
        /\ <<record'.drug_1_name, record'.drug_2_name>> \in seen_pairs =>
              record'.random \in 0..9

\* C27: the record-collection loop of generate_drug_interactions ends for
\* every total_records >= 1, also when total_records is more than the
\* number of distinct drug pairs, under fair draws, and with exactly
\* total_records records; a record whose pair was already seen is accepted
\* only on the 10% duplicate branch; and in every record drug_1_name and
\* drug_2_name are distinct and sorted.
C27_CollectionTerminates == <>(di_pc = "done") /\ []C27_Records /\ [][C27_Step]_vars

\* The loop is over with more records than there are distinct pairs.
C27_Witness ==
    /\ di_pc = "done"
    /\ Len(all_records) = total_records
    /\ total_records > Cardinality(AlphabeticalPairs)
    /\ Cardinality(seen_pairs) < Len(all_records)


(***************************************************************************)
(* Claims about the components of the patient share (SpecPricing).         *)
(***************************************************************************)

\* C28: in every result of calculate_line_pricing the copay, the
\* coinsurance and the deductible add up to patient_responsibility, on the
\* clamped branch as on the unclamped one, and none of the three is
\* negative.
C28_ComponentsSumToPatientShare ==
    HasLine =>
        /\ Cents(line.copay_amount) + Cents(line.coinsurance_amount)
              + Cents(line.deductible_amount) = Cents(line.patient_responsibility)
        /\ Cents(line.copay_amount) >= 0
        /\ Cents(line.coinsurance_amount) >= 0
        /\ Cents(line.deductible_amount) >= 0

\* A line of a coinsurance tier on which the clamp fired: the whole patient
\* share is now the copay.
C28_Witness ==
    /\ HasLine
    /\ line.tier_level \in {4, 5}
    /\ LineUnclamped.coinsurance > 0
    /\ LineUnclamped.patient_responsibility > Cents(line.allowed_amount)
    /\ Cents(line.copay_amount) = Cents(line.allowed_amount)


(***************************************************************************)
(* Claims about the dates of a pharmacy-network record (SpecCall).         *)
(***************************************************************************)

\* C30: every record generate_pharmacy_network_record makes, for each of
\* the statuses Active, Inactive and Pending and each effective date of the
\* last five years, has an empty termination_date or one that is not before
\* its effective_date; and the termination date of an Inactive record is
\* never after the day of the run.
C30_TerminationNotBeforeEffective ==
    (fn = "generate_pharmacy_network_record" /\ ret # Pending) =>
        /\ ret.value.termination_date # <<>> =>
              ret.value.termination_date[1] >= ret.value.effective_date[1]
        /\ (ret.value.status = "Inactive" /\ ret.value.termination_date # <<>>) =>
              ret.value.termination_date[1] <= 0


=========================================================================
